---- MODULE Spec2Model ----
(***************************************************************************)
(* A model of the micropayment gateway (ApiEngine, VoucherAuth, the        *)
(* unspent-voucher record, the outstanding-balance record) and of the      *)
(* batch state-delta engine (process_txs).                                 *)
(*                                                                         *)
(* Every rw_on_* / r_on_* callback of the source is one atomic step: the   *)
(* closure runs under the client's lock.  Between two callbacks of one     *)
(* async fn (an .await) other calls may run.  All state is per client and  *)
(* every callback takes one client's record, so one client is modelled.    *)
(***************************************************************************)
EXTENDS Integers, Sequences, FiniteSets, TLC

VARIABLES
    vt,        \* ClientUnspentVouchers: spent_vouchers, unspent_vouchers, last_known_nonce
    ob,        \* OutstandingBalanceRecord: outstanding, lock_value
    cfg,       \* ClientRiskConfig and SettleConfig, immutable after construction
    proc,      \* one record per in-flight ApiEngine call: its position and locals
    realized,  \* history: sum of actual_cost added by settle_query
    batch,     \* process_txs: header, deltas, loop position, output
    sv,        \* ClientSettleVouchers: unsettled_vouchers, settled_vouchers, job
    cron,      \* the mby_start_settle_job call: its position and locals
    tr,        \* OutstandingBalanceTracker (v2): the records and the calls on them
    calc       \* the last call of a pure function: its arguments and its result

vars == <<vt, ob, cfg, proc, realized, batch, sv, cron, tr, calc>>

-----------------------------------------------------------------------------
(* Bounds of the model *)

MaxNonce == 2        \* presented vouchers carry a nonce in 0..MaxNonce
MaxCost == 2         \* aprx_cost and actual_cost range over 0..MaxCost
MaxRealized == 3     \* settle_query is not called once this much cost is realized

Procs == {"p1", "p2"}
VoucherAtoms == {1, 2}
CollateralValues == {0, 6}
SubscriptionValues == {0, 1}

\* engine.rs: pub const DEFAULT_VENDOR_CLIENT_EXPAND_RISK: u64 = 5
DEFAULT_VENDOR_CLIENT_EXPAND_RISK == 5
ExpandRiskValues == {0, DEFAULT_VENDOR_CLIENT_EXPAND_RISK}

-----------------------------------------------------------------------------
(* Helpers: Option<T> is a sequence of length at most one *)

None == <<>>
Some(x) == <<x>>

Min(a, b) == IF a <= b THEN a ELSE b

\* u64::saturating_sub
saturating_sub(a, b) == IF a >= b THEN a - b ELSE 0

RECURSIVE SumAtoms(_)
SumAtoms(s) == IF s = <<>> THEN 0 ELSE s[1].atoms + SumAtoms(Tail(s))

Nonces(s) == {s[i].nonce : i \in 1..Len(s)}

\* the nonce the record would insert next
NextNonce(r) == IF r.last_known_nonce = None THEN 0 ELSE r.last_known_nonce[1] + 1

-----------------------------------------------------------------------------
(* Vouchers and the oracle record.  The oracle is an external, read-only     *)
(* source (ClientOracleRead has no implementation in the repository): each  *)
(* read is handed whatever record the chain holds at that moment.           *)

\* a voucher as a caller presents it (TestVoucher: ci, vi, nonce, atoms, and
\* whether its signature verifies)
Vouchers ==
    [nonce : 0..MaxNonce, atoms : VoucherAtoms, vi : {"vendor"}, sig : {TRUE}]
    \cup [nonce : {0, MaxNonce}, atoms : {0}, vi : {"vendor"}, sig : {TRUE}]
    \cup [nonce : {0, MaxNonce}, atoms : {1}, vi : {"other"}, sig : {TRUE}]
    \cup [nonce : {0, MaxNonce}, atoms : {1}, vi : {"vendor"}, sig : {FALSE}]

OracleRecords ==
    [collateral_now : CollateralValues, collateral_to_be : CollateralValues,
     subscriptions_now : SubscriptionValues, is_subscribed_to_be : BOOLEAN]

Mut_get_client_risk_adj_collateral_subs_only(expand_risk, ci_collateral, ci_subscriptions) ==
    LET sm == ci_subscriptions + expand_risk
    IN  IF sm = 0 \/ ci_subscriptions = 0 THEN ci_collateral
        ELSE ci_collateral \div ci_subscriptions

\* ClientRiskConfig::get_client_risk_adj_collateral
get_client_risk_adj_collateral(expand_risk, ci_collateral, ci_subscriptions) ==
    LET sm == ci_subscriptions + expand_risk
    IN  IF sm = 0 THEN ci_collateral ELSE ci_collateral \div sm

-----------------------------------------------------------------------------
(* VoucherAuth *)

\* VoucherAuth::is_auth_static, the vendor of this gateway being "vendor"
is_auth_static(v) ==
    IF ~v.sig THEN "InvalidSig"
    ELSE IF v.atoms = 0 THEN "VoucherHasZeroAtoms"
    ELSE IF v.vi # "vendor" THEN "InvalidVendor"
    ELSE "Ok"

\* the closure of VoucherAuth::check_oracle
check_oracle(v, r) ==
    IF ~r.is_subscribed_to_be THEN "ClientIsNotSubscribed"
    ELSE IF r.collateral_to_be < v.atoms THEN "ClientHasInsufficientBalance"
    ELSE "Ok"

\* ClientUnspentVouchers::is_unspent_nonce_range
is_unspent_nonce_range(r, v) ==
    IF Len(r.unspent_vouchers) > 0
    THEN LET first == r.unspent_vouchers[1]
             last == r.unspent_vouchers[Len(r.unspent_vouchers)]
         IN  IF v.nonce < first.nonce THEN FALSE
             ELSE IF v.nonce > last.nonce + 1 THEN FALSE
             ELSE TRUE
    ELSE TRUE

Mut_InsertVoucher_front(r, v) ==
    [r EXCEPT !.last_known_nonce = Some(v.nonce),
              !.unspent_vouchers = <<v>> \o @]

Mut_InsertVoucher_stale_nonce(r, v) ==
    [r EXCEPT !.last_known_nonce = Some(0),
              !.unspent_vouchers = Append(@, v)]

\* is_auth_start_session storing a voucher:
\* r.last_known_nonce = Some(v.nonce()); r.unspent_vouchers.push(v.clone())
InsertVoucher(r, v) ==
    [r EXCEPT !.last_known_nonce = Some(v.nonce),
              !.unspent_vouchers = Append(@, v)]

Mut_start_session_rw_reinsert(v, r) ==
    IF ~is_unspent_nonce_range(r, v)
    THEN [res |-> "VoucherSpentOrNonceTooHigh", r |-> r]
    ELSE IF r.last_known_nonce # None
    THEN IF v.nonce = r.last_known_nonce[1] + 1 \/ v.nonce = r.last_known_nonce[1]
         THEN [res |-> "Ok", r |-> InsertVoucher(r, v)]
         ELSE [res |-> "Ok", r |-> r]
    ELSE IF v.nonce # 0
    THEN [res |-> "FirstVoucherNonceInvalid", r |-> r]
    ELSE [res |-> "Ok", r |-> InsertVoucher(r, v)]

Mut_start_session_rw_first_any(v, r) ==
    IF ~is_unspent_nonce_range(r, v)
    THEN [res |-> "VoucherSpentOrNonceTooHigh", r |-> r]
    ELSE IF r.last_known_nonce # None
    THEN IF v.nonce = r.last_known_nonce[1] + 1
         THEN [res |-> "Ok", r |-> InsertVoucher(r, v)]
         ELSE [res |-> "Ok", r |-> r]
    ELSE [res |-> "Ok", r |-> InsertVoucher(r, v)]

\* the closure VoucherAuth::is_auth_start_session runs on the client's
\* ClientUnspentVouchers: the result and the record it leaves
start_session_rw(v, r) ==
    IF ~is_unspent_nonce_range(r, v)
    THEN [res |-> "VoucherSpentOrNonceTooHigh", r |-> r]
    ELSE IF r.last_known_nonce # None
    THEN IF v.nonce = r.last_known_nonce[1] + 1
         THEN [res |-> "Ok", r |-> InsertVoucher(r, v)]
         ELSE [res |-> "Ok", r |-> r]
    ELSE IF v.nonce # 0
    THEN [res |-> "FirstVoucherNonceInvalid", r |-> r]
    ELSE [res |-> "Ok", r |-> InsertVoucher(r, v)]

Mut_start_query_rw_insert(v, r) ==
    IF ~is_unspent_nonce_range(r, v)
    THEN [res |-> "VoucherSpentOrNonceTooHigh", r |-> r]
    ELSE IF v.nonce = NextNonce(r)
    THEN [res |-> "Ok", r |-> InsertVoucher(r, v)]
    ELSE [res |-> "Ok", r |-> r]

\* the closure VoucherAuth::is_auth_start_query runs on the record
start_query_rw(v, r) ==
    IF ~is_unspent_nonce_range(r, v)
    THEN [res |-> "VoucherSpentOrNonceTooHigh", r |-> r]
    ELSE [res |-> "Ok", r |-> r]

-----------------------------------------------------------------------------
(* ApiEngine closures *)

NoQc == [locked_cost |-> 0, should_continue |-> FALSE]

Mut_query_rw_no_cap(unspent, safe_cap, aprx_cost, r) ==
    LET safe_avb ==
            saturating_sub(saturating_sub(unspent, r.outstanding), r.lock_value)
    IN  IF aprx_cost > safe_avb
        THEN [qc |-> NoQc, r |-> r]
        ELSE [qc |-> [locked_cost |-> aprx_cost, should_continue |-> TRUE],
              r |-> [r EXCEPT !.lock_value = @ + aprx_cost]]

Mut_query_rw_ignore_lock(unspent, safe_cap, aprx_cost, r) ==
    LET safe_avb == Min(saturating_sub(unspent, r.outstanding), safe_cap)
    IN  IF aprx_cost > safe_avb
        THEN [qc |-> NoQc, r |-> r]
        ELSE [qc |-> [locked_cost |-> aprx_cost, should_continue |-> TRUE],
              r |-> [r EXCEPT !.lock_value = @ + aprx_cost]]

Mut_query_rw_no_lock(unspent, safe_cap, aprx_cost, r) ==
    LET safe_avb ==
            Min(saturating_sub(saturating_sub(unspent, r.outstanding), r.lock_value),
                safe_cap)
    IN  IF aprx_cost > safe_avb
        THEN [qc |-> NoQc, r |-> r]
        ELSE [qc |-> [locked_cost |-> aprx_cost, should_continue |-> TRUE],
              r |-> r]

\* the closure ApiEngine::query runs on the balance record
query_rw(unspent, safe_cap, aprx_cost, r) ==
    LET safe_avb ==
            Min(saturating_sub(saturating_sub(unspent, r.outstanding), r.lock_value),
                safe_cap)
    IN  IF aprx_cost > safe_avb
        THEN [qc |-> NoQc, r |-> r]
        ELSE [qc |-> [locked_cost |-> aprx_cost, should_continue |-> TRUE],
              r |-> [r EXCEPT !.lock_value = @ + aprx_cost]]

Mut_settle_add_rw_no_unlock(q, actual_cost, r) ==
    [r EXCEPT !.outstanding = @ + actual_cost]

\* first closure of ApiEngine::settle_query, on the balance record
settle_add_rw(q, actual_cost, r) ==
    [r EXCEPT !.outstanding = @ + actual_cost,
              !.lock_value = saturating_sub(@, q.locked_cost)]

Mut_settle_mark_rw_always(outstanding_bal, r) ==
    IF Len(r.unspent_vouchers) > 0
    THEN [popped |-> Some(r.unspent_vouchers[1]),
          r |-> [r EXCEPT !.unspent_vouchers = Tail(@),
                          !.spent_vouchers = Append(@, r.unspent_vouchers[1])]]
    ELSE [popped |-> None, r |-> r]

Mut_settle_mark_rw_strict(outstanding_bal, r) ==
    LET should_mark ==
            IF Len(r.unspent_vouchers) > 0
            THEN outstanding_bal > r.unspent_vouchers[1].atoms
            ELSE FALSE
    IN  IF should_mark
        THEN [popped |-> Some(r.unspent_vouchers[1]),
              r |-> [r EXCEPT !.unspent_vouchers = Tail(@),
                              !.spent_vouchers = Append(@, r.unspent_vouchers[1])]]
        ELSE [popped |-> None, r |-> r]

Mut_settle_mark_rw_no_stage(outstanding_bal, r) ==
    LET should_mark ==
            IF Len(r.unspent_vouchers) > 0
            THEN outstanding_bal >= r.unspent_vouchers[1].atoms
            ELSE FALSE
    IN  IF should_mark
        THEN [popped |-> Some(r.unspent_vouchers[1]),
              r |-> [r EXCEPT !.unspent_vouchers = Tail(@)]]
        ELSE [popped |-> None, r |-> r]

\* second closure of ApiEngine::settle_query, on the voucher record
settle_mark_rw(outstanding_bal, r) ==
    LET should_mark ==
            IF Len(r.unspent_vouchers) > 0
            THEN outstanding_bal >= r.unspent_vouchers[1].atoms
            ELSE FALSE
    IN  IF should_mark
        THEN [popped |-> Some(r.unspent_vouchers[1]),
              r |-> [r EXCEPT !.unspent_vouchers = Tail(@),
                              !.spent_vouchers = Append(@, r.unspent_vouchers[1])]]
        ELSE [popped |-> None, r |-> r]

\* third closure of ApiEngine::settle_query, on the balance record
settle_reduce_rw(atoms, r) ==
    [r EXCEPT !.outstanding = saturating_sub(@, atoms)]

\* process_txs has not been called
NoBatch == [pc |-> "idle"]

\* no pure function has been called
NoCalc == [fn |-> "none"]

\* no OutstandingBalanceTracker of v2 has been constructed
NoTracker == [records |-> <<>>]

\* a ClientSettleVouchers record with no voucher and no job
EmptySv == [unsettled_vouchers |-> <<>>, settled_vouchers |-> <<>>, job |-> None]

NoOracleRecord ==
    [collateral_now |-> 0, collateral_to_be |-> 0, subscriptions_now |-> 0,
     is_subscribed_to_be |-> FALSE]

\* a mby_start_settle_job call: its position, the locals it holds, and the
\* job try_cleanup_job met (history)
IdleCron ==
    [pc |-> "idle", unsettled |-> 0, count |-> 0, job_running |-> FALSE,
     r |-> NoOracleRecord, max_settle |-> 0, to_settle |-> <<>>,
     met |-> "none"]

-----------------------------------------------------------------------------
(* ApiEngine calls.  A call is at one of its awaits (pc), holding its       *)
(* arguments and locals.  What a call does before its first access to a     *)
(* client record touches nothing shared (the static check, the oracle       *)
(* read), so it is one step with the call itself.  The accesses to the      *)
(* records and to the oracle succeed (no io::Error), except those of        *)
(* settle_query under SpecIo (SettleIoError).  When a call has              *)
(* returned (pc = "ret") the record keeps its arguments and what it         *)
(* returned and, for the admission calls, what the oracle record said       *)
(* (ci_collat, ci_subscribed), whether the voucher's nonce was              *)
(* the next one to store when the call was made (fresh), whether the        *)
(* closure on the voucher record ran (gated) and whether it inserted the    *)
(* voucher (inserted), and for query whether no closure of a settle_query   *)
(* has run since the call was made (clean).  The caller takes the result    *)
(* at once (Return):                                                        *)
(* nothing else runs in between, which loses no behaviour, as Return        *)
(* touches nothing shared.  The caller of query keeps the QueryCont         *)
(* (pc = "q_held") and settles it next, once.                               *)

NoVoucher == [nonce |-> 0, atoms |-> 0, vi |-> "vendor", sig |-> FALSE]
EmptyVt == [spent_vouchers |-> <<>>, unspent_vouchers |-> <<>>,
            last_known_nonce |-> None]

IdleProc ==
    [pc |-> "idle", op |-> "none", v |-> NoVoucher, cost |-> 0,
     ci_collat |-> 0, ci_sub |-> 0, ci_subscribed |-> FALSE,
     safe_cap |-> 0, unspent |-> 0,
     qc |-> NoQc, bal |-> 0, popped |-> None, res |-> "none",
     gated |-> FALSE, fresh |-> FALSE, inserted |-> FALSE, clean |-> FALSE,
     oracle_failed |-> FALSE]

\* a closure of settle_query has run: no query in flight or held is any
\* longer one that no settle_query has run since it was called
Tainted(pr) == [q \in Procs |-> [pr[q] EXCEPT !.clean = FALSE]]

\* no caller is about to take a result
NoResult == \A q \in Procs : proc[q].pc # "ret"

\* p is at position pc and takes its next step
At(p, pc) == proc[p].pc = pc /\ NoResult

\* no call is running in p: a new call can start
CanCall(p) == At(p, "idle")

ApiUnchanged == UNCHANGED <<cfg, batch, sv, cron, tr, calc>>

Mut_Gates_oracle_first(v, r) ==
    LET vol == check_oracle(v, r)
    IN  IF vol # "Ok" THEN vol ELSE is_auth_static(v)

\* the gates of an admission call before the voucher record is locked:
\* is_auth_static, then check_oracle on the record r the oracle hands out
Gates(v, r) ==
    LET st == is_auth_static(v)
    IN  IF st # "Ok" THEN st ELSE check_oracle(v, r)

\* ApiEngine::accept_session(v), up to its await of the voucher record
CallSession(p, v, r) ==
    /\ CanCall(p)
    /\ LET g == Gates(v, r)
           call == [IdleProc EXCEPT !.op = "session", !.v = v,
                                    !.ci_collat = r.collateral_to_be,
                                    !.ci_subscribed = r.is_subscribed_to_be]
       IN  proc' = [proc EXCEPT
                      ![p] = IF g = "Ok"
                             THEN [call EXCEPT !.pc = "sess_track",
                                               !.fresh = (v.nonce = NextNonce(vt))]
                             ELSE [call EXCEPT !.pc = "ret", !.res = g]]
    /\ UNCHANGED <<vt, ob, realized>>
    /\ ApiUnchanged

\* ApiEngine::accept_query(v), up to its await of the voucher record
CallAcceptQuery(p, v, r) ==
    /\ CanCall(p)
    /\ LET g == Gates(v, r)
           call == [IdleProc EXCEPT !.op = "accept_query", !.v = v,
                                    !.ci_collat = r.collateral_to_be,
                                    !.ci_subscribed = r.is_subscribed_to_be]
       IN  proc' = [proc EXCEPT
                      ![p] = IF g = "Ok"
                             THEN [call EXCEPT !.pc = "aq_track"]
                             ELSE [call EXCEPT !.pc = "ret", !.res = g]]
    /\ UNCHANGED <<vt, ob, realized>>
    /\ ApiUnchanged

\* the rw_on_unspent_vouchers callback of is_auth_start_session
SessionTrack(p) ==
    /\ At(p, "sess_track")
    /\ LET out == start_session_rw(proc[p].v, vt)
       IN  /\ vt' = out.r
           /\ proc' = [proc EXCEPT
                         ![p] = [@ EXCEPT !.pc = "ret", !.res = out.res,
                                          !.gated = TRUE,
                                          !.inserted = (out.r # vt)]]
    /\ UNCHANGED <<ob, realized>>
    /\ ApiUnchanged

\* the rw_on_unspent_vouchers callback of is_auth_start_query
AcceptQueryTrack(p) ==
    /\ At(p, "aq_track")
    /\ LET out == start_query_rw(proc[p].v, vt)
       IN  /\ vt' = out.r
           /\ proc' = [proc EXCEPT
                         ![p] = [@ EXCEPT !.pc = "ret", !.res = out.res,
                                          !.gated = TRUE,
                                          !.inserted = (out.r # vt)]]
    /\ UNCHANGED <<ob, realized>>
    /\ ApiUnchanged

\* ApiEngine::query(ci, aprx_cost): the r_on_client_oracle callback on the
\* record r, then safe_cap
CallQuery(p, aprx_cost, r) ==
    /\ CanCall(p)
    /\ proc' = [proc EXCEPT
                  ![p] = [IdleProc EXCEPT
                            !.pc = "q_unspent", !.op = "query", !.clean = TRUE,
                            !.cost = aprx_cost,
                            !.ci_collat = r.collateral_to_be,
                            !.ci_sub = r.subscriptions_now,
                            !.safe_cap = get_client_risk_adj_collateral(
                                             cfg.expand_risk,
                                             r.collateral_to_be,
                                             r.subscriptions_now)]]
    /\ UNCHANGED <<vt, ob, realized>>
    /\ ApiUnchanged

\* query: the rw_on_unspent_vouchers callback summing the unspent atoms
QueryUnspent(p) ==
    /\ At(p, "q_unspent")
    /\ proc' = [proc EXCEPT ![p] = [@ EXCEPT !.pc = "q_bal",
                                             !.unspent = SumAtoms(vt.unspent_vouchers)]]
    /\ UNCHANGED <<vt, ob, realized>>
    /\ ApiUnchanged

\* query: the rw_on_client_o_balance callback; query returns its QueryCont
QueryBalance(p) ==
    /\ At(p, "q_bal")
    /\ LET out == query_rw(proc[p].unspent, proc[p].safe_cap, proc[p].cost, ob)
       IN  /\ ob' = out.r
           /\ proc' = [proc EXCEPT ![p] = [@ EXCEPT !.pc = "ret", !.qc = out.qc]]
    /\ UNCHANGED <<vt, realized>>
    /\ ApiUnchanged

\* ApiEngine::settle_query(ci, q, actual_cost) with a QueryCont that says
\* not to continue: it returns at once
SettleSkip(p, actual_cost) ==
    /\ At(p, "q_held")
    /\ ~proc[p].qc.should_continue
    /\ proc' = [proc EXCEPT ![p] = [IdleProc EXCEPT !.pc = "ret", !.op = "settle",
                                                    !.res = "Ok"]]
    /\ UNCHANGED <<vt, ob, realized>>
    /\ ApiUnchanged

\* settle_query with the QueryCont query granted: outstanding += actual_cost,
\* unlock, capture outstanding
SettleAdd(p, actual_cost) ==
    /\ At(p, "q_held")
    /\ proc[p].qc.should_continue
    /\ realized + actual_cost <= MaxRealized
    /\ ob' = settle_add_rw(proc[p].qc, actual_cost, ob)
    /\ realized' = realized + actual_cost
    /\ proc' = Tainted([proc EXCEPT
                           ![p] = [IdleProc EXCEPT !.pc = "s_track", !.op = "settle",
                                                   !.bal = ob'.outstanding]])
    /\ UNCHANGED <<vt>>
    /\ ApiUnchanged

\* settle_query: maybe move the first unspent voucher to spent_vouchers
SettleMark(p) ==
    /\ At(p, "s_track")
    /\ LET out == settle_mark_rw(proc[p].bal, vt)
       IN  /\ vt' = out.r
           /\ proc' = Tainted([proc EXCEPT
                                  ![p] = IF out.popped # None
                                         THEN [@ EXCEPT !.pc = "s_bal2",
                                                        !.popped = out.popped]
                                         ELSE [@ EXCEPT !.pc = "ret", !.res = "Ok"]])
    /\ UNCHANGED <<ob, realized>>
    /\ ApiUnchanged

\* settle_query: reduce outstanding by the popped voucher's atoms
SettleReduce(p) ==
    /\ At(p, "s_bal2")
    /\ ob' = settle_reduce_rw(proc[p].popped[1].atoms, ob)
    /\ proc' = Tainted([proc EXCEPT ![p] = [@ EXCEPT !.pc = "ret", !.res = "Ok"]])
    /\ UNCHANGED <<vt, realized>>
    /\ ApiUnchanged

\* settle_query: the access to the voucher record (pc = "s_track") or the
\* second access to the balance record (pc = "s_bal2") fails with an
\* io::Error before its closure runs, and `?` returns it to the caller
SettleIoError(p) ==
    /\ At(p, "s_track") \/ At(p, "s_bal2")
    /\ proc' = [proc EXCEPT ![p] = [@ EXCEPT !.pc = "ret", !.res = "IO"]]
    /\ UNCHANGED <<vt, ob, realized>>
    /\ ApiUnchanged

\* the caller takes the result; after query it holds the QueryCont
Return(p) ==
    /\ proc[p].pc = "ret"
    /\ proc' = [proc EXCEPT
                  ![p] = IF @.op = "query" /\ @.res # "IO"
                         THEN [IdleProc EXCEPT !.pc = "q_held", !.qc = proc[p].qc,
                                               !.clean = proc[p].clean]
                         ELSE IdleProc]
    /\ UNCHANGED <<vt, ob, realized>>
    /\ ApiUnchanged

\* one step of a call of p, its inputs drawn from the vouchers VS, the oracle
\* records RS and the costs CS
ApiCallStep(p, VS, RS, CS) ==
    \/ \E v \in VS, r \in RS : CallSession(p, v, r)
    \/ \E v \in VS, r \in RS : CallAcceptQuery(p, v, r)
    \/ SessionTrack(p)
    \/ AcceptQueryTrack(p)
    \/ \E c \in CS, r \in RS : CallQuery(p, c, r)
    \/ QueryUnspent(p)
    \/ QueryBalance(p)
    \/ \E c \in CS : SettleSkip(p, c)
    \/ \E c \in CS : SettleAdd(p, c)
    \/ SettleMark(p)
    \/ SettleReduce(p)

ApiStep(p, VS, RS, CS) ==
    \/ Return(p)
    \/ ApiCallStep(p, VS, RS, CS)

Configs ==
    [expand_risk : ExpandRiskValues]

ApiInit ==
    /\ vt = EmptyVt
    /\ ob = [outstanding |-> 0, lock_value |-> 0]
    /\ cfg \in Configs
    /\ proc = [p \in Procs |-> IdleProc]
    /\ realized = 0

Init ==
    /\ ApiInit /\ batch = NoBatch /\ sv = EmptySv /\ cron = IdleCron
    /\ tr = NoTracker /\ calc = NoCalc

\* the oracle records an ApiEngine call can be handed: collateral_now is not
\* read by ApiEngine
ApiOracleRecords == {r \in OracleRecords : r.collateral_now = r.collateral_to_be}

ValidVouchers == {v \in Vouchers : is_auth_static(v) = "Ok"}

\* calls of one client run concurrently; the vouchers presented are valid
\* ones of one size and the client has one subscription
ConcVouchers == {v \in ValidVouchers : v.atoms = 1}
ConcOracleRecords == {r \in ApiOracleRecords : r.subscriptions_now = 1}

Next ==
    \E p \in Procs :
        ApiStep(p, ConcVouchers, ConcOracleRecords, 0..MaxCost)

Spec == Init /\ [][Next]_vars

\* calls of one client run one after another
OthersQuiet(p) == \A q \in Procs \ {p} : proc[q].pc \in {"idle", "q_held"}

NextSeq ==
    \E p \in Procs :
        \/ OthersQuiet(p) /\ Return(p)
        \/ /\ OthersQuiet(p) /\ CanCall(p)
           /\ \E v \in Vouchers, r \in ApiOracleRecords : CallSession(p, v, r)
        \/ /\ OthersQuiet(p) /\ CanCall(p)
           /\ \E v \in Vouchers, r \in ApiOracleRecords : CallAcceptQuery(p, v, r)
        \/ OthersQuiet(p) /\ SessionTrack(p)
        \/ OthersQuiet(p) /\ AcceptQueryTrack(p)
        \/ /\ OthersQuiet(p) /\ CanCall(p)
           /\ \E c \in 0..MaxCost, r \in ApiOracleRecords : CallQuery(p, c, r)
        \/ OthersQuiet(p) /\ QueryUnspent(p)
        \/ OthersQuiet(p) /\ QueryBalance(p)
        \/ /\ OthersQuiet(p) /\ At(p, "q_held")
           /\ \E c \in 0..MaxCost : SettleSkip(p, c)
        \/ /\ OthersQuiet(p) /\ At(p, "q_held")
           /\ \E c \in 0..MaxCost : SettleAdd(p, c)
        \/ OthersQuiet(p) /\ SettleMark(p)
        \/ OthersQuiet(p) /\ SettleReduce(p)

SpecSeq == Init /\ [][NextSeq]_vars

\* calls of one client run one after another, and an access of settle_query
\* to a record may fail
NextIo ==
    \/ NextSeq
    \/ \E p \in Procs : OthersQuiet(p) /\ SettleIoError(p)

SpecIo == Init /\ [][NextIo]_vars

Mut_oracle_io_gate_fail_open(v) == is_auth_static(v)

\* the gates of an admission call when r_on_client_oracle fails: the error
\* of is_auth_static, else the io::Error of the read as VAuthErr::IO
oracle_io_gate(v) ==
    LET st == is_auth_static(v)
    IN  IF st # "Ok" THEN st ELSE "IO"

\* ApiEngine::accept_session(v) when the read of the oracle fails
CallSessionIo(p, v) ==
    /\ CanCall(p)
    /\ LET g == oracle_io_gate(v)
           call == [IdleProc EXCEPT !.op = "session", !.v = v,
                                    !.oracle_failed = (is_auth_static(v) = "Ok")]
       IN  proc' = [proc EXCEPT
                      ![p] = IF g = "Ok"
                             THEN [call EXCEPT !.pc = "sess_track",
                                               !.fresh = (v.nonce = NextNonce(vt))]
                             ELSE [call EXCEPT !.pc = "ret", !.res = g]]
    /\ UNCHANGED <<vt, ob, realized>>
    /\ ApiUnchanged

\* ApiEngine::accept_query(v) when the read of the oracle fails
CallAcceptQueryIo(p, v) ==
    /\ CanCall(p)
    /\ LET g == oracle_io_gate(v)
           call == [IdleProc EXCEPT !.op = "accept_query", !.v = v,
                                    !.oracle_failed = (is_auth_static(v) = "Ok")]
       IN  proc' = [proc EXCEPT
                      ![p] = IF g = "Ok"
                             THEN [call EXCEPT !.pc = "aq_track"]
                             ELSE [call EXCEPT !.pc = "ret", !.res = g]]
    /\ UNCHANGED <<vt, ob, realized>>
    /\ ApiUnchanged

\* ApiEngine::query(ci, aprx_cost) when the read of the oracle fails: the ?
\* after the first await returns the error
CallQueryIo(p, aprx_cost) ==
    /\ CanCall(p)
    /\ proc' = [proc EXCEPT
                  ![p] = [IdleProc EXCEPT
                            !.pc = "ret", !.op = "query", !.cost = aprx_cost,
                            !.res = "IO", !.oracle_failed = TRUE]]
    /\ UNCHANGED <<vt, ob, realized>>
    /\ ApiUnchanged

\* calls of one client run one after another, and a read of the oracle may
\* fail
NextOracleIo ==
    \/ NextSeq
    \/ \E p \in Procs :
           OthersQuiet(p) /\ \E v \in Vouchers : CallSessionIo(p, v)
    \/ \E p \in Procs :
           OthersQuiet(p) /\ \E v \in Vouchers : CallAcceptQueryIo(p, v)
    \/ \E p \in Procs :
           OthersQuiet(p) /\ \E c \in 0..MaxCost : CallQueryIo(p, c)

SpecOracleIo == Init /\ [][NextOracleIo]_vars

-----------------------------------------------------------------------------
(* CronEngine::mby_start_settle_job and ClientSettleVouchers.  The record   *)
(* of the client is reached through rw_on_settle_vouchers, whose list is    *)
(* ordered ascending by nonce.  Nothing in the repository fills the         *)
(* unsettled list or attaches a job: both are done by the owner of the      *)
(* storage, and a SettleJob answers is_finished / is_successful from what   *)
(* happens on the chain.  These are the Env actions.                        *)

MaxSettleVouchers == 2

References == {"ref1", "ref2"}

\* the atoms of the vouchers a record holds
CronVoucherAtoms == VoucherAtoms \cup {4}

\* the collateral the oracle reports to the cron engine
CronCollateralValues == {0, 3, 6}

\* collateral_to_be is collateral_now less the queued withdrawals
CronOracleRecords ==
    {r \in [collateral_now : CronCollateralValues,
            collateral_to_be : CollateralValues,
            subscriptions_now : SubscriptionValues,
            is_subscribed_to_be : BOOLEAN] :
        r.collateral_to_be <= r.collateral_now}

\* SettleConfig next to the ClientRiskConfig of the CronEngine
CronConfigs ==
    [expand_risk : ExpandRiskValues, min_settle_size : {2},
     do_settle_size : {3}, max_settle_count : {2, 4}]

\* the loop of try_cleanup_job: the vouchers before the first one with
\* nonce > up_to
RECURSIVE UpToNonce(_, _)
UpToNonce(s, up_to) ==
    IF s = <<>> \/ s[1].nonce > up_to THEN <<>>
    ELSE <<s[1]>> \o UpToNonce(Tail(s), up_to)

AboveNonce(u, up_to) == u.nonce > up_to

Mut_try_cleanup_job_keep_boundary(x) ==
    LET job_finished == x.job # None /\ x.job[1].is_finished
    IN  IF ~job_finished THEN [res |-> FALSE, x |-> x]
        ELSE IF ~x.job[1].is_successful
        THEN [res |-> FALSE, x |-> [x EXCEPT !.job = None]]
        ELSE LET up_to == x.job[1].up_to_incl_nonce
                 done == UpToNonce(x.unsettled_vouchers, up_to)
             IN  [res |-> TRUE,
                  x |-> [unsettled_vouchers |->
                             SelectSeq(x.unsettled_vouchers,
                                       LAMBDA u : u.nonce >= up_to),
                         settled_vouchers |->
                             x.settled_vouchers \o
                             [i \in 1..Len(done) |->
                                 [v |-> done[i],
                                  reference |-> x.job[1].reference]],
                         job |-> None]]

Mut_try_cleanup_job_keep_failed(x) ==
    LET job_finished == x.job # None /\ x.job[1].is_finished
    IN  IF ~job_finished \/ ~x.job[1].is_successful THEN [res |-> FALSE, x |-> x]
        ELSE LET up_to == x.job[1].up_to_incl_nonce
                 done == UpToNonce(x.unsettled_vouchers, up_to)
             IN  [res |-> TRUE,
                  x |-> [unsettled_vouchers |->
                             SelectSeq(x.unsettled_vouchers,
                                       LAMBDA u : AboveNonce(u, up_to)),
                         settled_vouchers |->
                             x.settled_vouchers \o
                             [i \in 1..Len(done) |->
                                 [v |-> done[i],
                                  reference |-> x.job[1].reference]],
                         job |-> None]]

\* ClientSettleVouchers::try_cleanup_job: res is what it returns, x the
\* record it leaves
try_cleanup_job(x) ==
    LET job_finished == x.job # None /\ x.job[1].is_finished
    IN  IF ~job_finished THEN [res |-> FALSE, x |-> x]
        ELSE IF ~x.job[1].is_successful
        THEN [res |-> FALSE, x |-> [x EXCEPT !.job = None]]
        ELSE LET up_to == x.job[1].up_to_incl_nonce
                 done == UpToNonce(x.unsettled_vouchers, up_to)
             IN  [res |-> TRUE,
                  x |-> [unsettled_vouchers |->
                             SelectSeq(x.unsettled_vouchers,
                                       LAMBDA u : AboveNonce(u, up_to)),
                         settled_vouchers |->
                             x.settled_vouchers \o
                             [i \in 1..Len(done) |->
                                 [v |-> done[i],
                                  reference |-> x.job[1].reference]],
                         job |-> None]]

Mut_settle_trigger_no_count(c, unsettled, count, safe_cap_to_be) ==
    \/ unsettled >= safe_cap_to_be
    \/ unsettled >= c.do_settle_size

\* over_risk || max_count || over_do_size
settle_trigger(c, unsettled, count, safe_cap_to_be) ==
    \/ unsettled >= safe_cap_to_be
    \/ count >= c.max_settle_count
    \/ unsettled >= c.do_settle_size

\* balance_to_be of the oracle closure, then the risk-adjusted cap
safe_cap_to_be(c, r) ==
    get_client_risk_adj_collateral(
        c.expand_risk,
        IF r.is_subscribed_to_be THEN r.collateral_to_be ELSE 0,
        r.subscriptions_now)

RECURSIVE Mut_select_to_settle_stop_early(_, _, _)
Mut_select_to_settle_stop_early(s, sm, max_settle) ==
    IF s = <<>> THEN <<>>
    ELSE LET new == sm + s[1].atoms
         IN  IF new >= max_settle THEN <<>>
             ELSE <<s[1]>> \o Mut_select_to_settle_stop_early(Tail(s), new, max_settle)

\* the loop of the second closure: the vouchers pushed to res from list s
\* when the running sum is sm
RECURSIVE select_to_settle(_, _, _)
select_to_settle(s, sm, max_settle) ==
    IF s = <<>> THEN <<>>
    ELSE LET new == sm + s[1].atoms
         IN  IF new > max_settle THEN <<>>
             ELSE <<s[1]>> \o select_to_settle(Tail(s), new, max_settle)

CronUnchanged == UNCHANGED <<vt, ob, cfg, proc, realized, batch, tr, calc>>

\* the first closure on the record: try_cleanup_job, then the sum and the
\* count of the unsettled vouchers unless a job is present; the call returns
\* when a job is running or the sum is below min_settle_size
CronCleanup ==
    /\ cron.pc = "idle"
    /\ LET x == try_cleanup_job(sv).x
           job_running == x.job # None
           unsettled == IF job_running THEN 0 ELSE SumAtoms(x.unsettled_vouchers)
           count == IF job_running THEN 0 ELSE Len(x.unsettled_vouchers)
       IN  /\ sv' = x
           /\ cron' = [IdleCron EXCEPT
                  !.pc = IF job_running \/ unsettled < cfg.min_settle_size
                         THEN "ret" ELSE "oracle",
                  !.unsettled = unsettled, !.count = count,
                  !.job_running = job_running,
                  !.met = IF sv.job = None THEN "no_job"
                          ELSE IF ~sv.job[1].is_finished THEN "running"
                          ELSE IF sv.job[1].is_successful THEN "succeeded"
                          ELSE "failed"]
    /\ CronUnchanged

\* the oracle closure and the decisions after it: no trigger, or
\* collateral_now below min_settle_size, returns
CronOracle(r) ==
    /\ cron.pc = "oracle"
    /\ LET trigger == settle_trigger(cfg, cron.unsettled, cron.count,
                                     safe_cap_to_be(cfg, r))
       IN  cron' = [cron EXCEPT
               !.pc = IF ~trigger \/ r.collateral_now < cfg.min_settle_size
                      THEN "ret" ELSE "select",
               !.r = r,
               !.max_settle = Min(r.collateral_now, cron.unsettled)]
    /\ UNCHANGED sv
    /\ CronUnchanged

\* the second closure on the record: to_settle
CronSelect ==
    /\ cron.pc = "select"
    /\ cron' = [cron EXCEPT
           !.pc = "selected",
           !.to_settle = select_to_settle(sv.unsettled_vouchers, 0, cron.max_settle)]
    /\ UNCHANGED sv
    /\ CronUnchanged

CronReturn ==
    /\ cron.pc \in {"ret", "selected"}
    /\ cron' = IdleCron
    /\ UNCHANGED sv
    /\ CronUnchanged

\* the owner of the storage appends the next voucher to the unsettled list
EnvPushUnsettled(atoms) ==
    /\ Len(sv.unsettled_vouchers) + Len(sv.settled_vouchers) < MaxSettleVouchers
    /\ sv' = [sv EXCEPT !.unsettled_vouchers =
                  Append(@, [nonce |-> Len(sv.unsettled_vouchers)
                                       + Len(sv.settled_vouchers),
                             atoms |-> atoms, vi |-> "vendor", sig |-> TRUE])]
    /\ UNCHANGED cron
    /\ CronUnchanged

\* a job is attached to a record that has none
EnvAttachJob(up_to, ref) ==
    /\ sv.job = None
    /\ sv' = [sv EXCEPT !.job =
                  Some([is_finished |-> FALSE, is_successful |-> FALSE,
                        up_to_incl_nonce |-> up_to, reference |-> ref])]
    /\ UNCHANGED cron
    /\ CronUnchanged

\* the job of the record ends on the chain
EnvJobFinish(ok) ==
    /\ sv.job # None
    /\ ~sv.job[1].is_finished
    /\ sv' = [sv EXCEPT !.job =
                  Some([@[1] EXCEPT !.is_finished = TRUE, !.is_successful = ok])]
    /\ UNCHANGED cron
    /\ CronUnchanged

NextCron ==
    \/ CronCleanup
    \/ \E r \in CronOracleRecords : CronOracle(r)
    \/ CronSelect
    \/ CronReturn
    \/ \E atoms \in CronVoucherAtoms : EnvPushUnsettled(atoms)
    \/ \E up_to \in 0..(MaxSettleVouchers - 1), ref \in References :
           EnvAttachJob(up_to, ref)
    \/ \E ok \in BOOLEAN : EnvJobFinish(ok)

InitCron ==
    /\ vt = EmptyVt
    /\ ob = [outstanding |-> 0, lock_value |-> 0]
    /\ cfg \in CronConfigs
    /\ proc = [p \in Procs |-> IdleProc]
    /\ realized = 0
    /\ batch = NoBatch
    /\ sv = EmptySv
    /\ cron = IdleCron
    /\ tr = NoTracker
    /\ calc = NoCalc

SpecCron == InitCron /\ [][NextCron]_vars

-----------------------------------------------------------------------------
(* OutstandingBalanceTracker of v2/obalance.rs over a store of records, one *)
(* per client, reached through rw_on_client_o_balance: the store is behind  *)
(* one async mutex, held from the lookup of the record to the end of the    *)
(* closure.  Calls are spawned as tasks and run in any order.  The counters *)
(* stay far below 2^64.                                                     *)

MaxTasks == 3

Clients == {"c1", "c2", "c3"}

AmountValues == {0, 2}

TrackerOps == {"add_obligation", "unlock", "reduce_obligation"}

TrackerCalls == [op : TrackerOps, ci : Clients, atoms : AmountValues]

\* the stores a tracker can be constructed over: c1 and c2 have a record,
\* c3 has none
StartRecords ==
    {[c \in Clients |->
         CASE c = "c1" -> Some([outstanding |-> o, lock_value |-> l])
           [] c = "c2" -> Some([outstanding |-> 2, lock_value |-> 0])
           [] OTHER -> None] : o \in {1, 3}, l \in {1, 3}}

\* a multiset of calls
NoCalls == [c \in TrackerCalls |-> 0]

\* the closure of add_obligation
add_obligation_rw(atoms, x) == [x EXCEPT !.outstanding = @ + atoms]

Mut_unlock_rw_no_floor(atoms, x) == [x EXCEPT !.lock_value = @ - atoms]

\* the closure of unlock
unlock_rw(atoms, x) == [x EXCEPT !.lock_value = saturating_sub(@, atoms)]

\* the closure of reduce_obligation
reduce_obligation_rw(atoms, x) == [x EXCEPT !.outstanding = saturating_sub(@, atoms)]

Mut_tracker_closure_overwrite(c, x) ==
    CASE c.op = "add_obligation" -> [x EXCEPT !.outstanding = c.atoms]
      [] c.op = "unlock" -> unlock_rw(c.atoms, x)
      [] OTHER -> reduce_obligation_rw(c.atoms, x)

\* the closure call c hands to rw_on_client_o_balance
tracker_closure(c, x) ==
    CASE c.op = "add_obligation" -> add_obligation_rw(c.atoms, x)
      [] c.op = "unlock" -> unlock_rw(c.atoms, x)
      [] OTHER -> reduce_obligation_rw(c.atoms, x)

Mut_rw_on_client_o_balance_or_default(m, c) ==
    LET x == IF m[c.ci] = None THEN [outstanding |-> 0, lock_value |-> 0]
             ELSE m[c.ci][1]
    IN  [res |-> "Ok", m |-> [m EXCEPT ![c.ci] = Some(tracker_closure(c, x))]]

Mut_rw_on_client_o_balance_every_record(m, c) ==
    IF m[c.ci] = None THEN [res |-> "Err", m |-> m]
    ELSE [res |-> "Ok",
          m |-> [d \in Clients |->
                    IF m[d] = None THEN None
                    ELSE Some(tracker_closure(c, m[d][1]))]]

\* rw_on_client_o_balance with the store locked: get_mut, "missing client"
\* when the map has no record, else the closure on the record
rw_on_client_o_balance(m, c) ==
    IF m[c.ci] = None THEN [res |-> "Err", m |-> m]
    ELSE [res |-> "Ok", m |-> [m EXCEPT ![c.ci] = Some(tracker_closure(c, m[c.ci][1]))]]

TrackerUnchanged == UNCHANGED <<vt, ob, cfg, proc, realized, batch, sv, cron, calc>>

\* tokio::spawn of a call on the tracker; last is the call that ended last,
\* its result and the records it met
Spawn(c) ==
    /\ tr.spawned < MaxTasks
    /\ tr' = [tr EXCEPT !.pending[c] = @ + 1, !.spawned = @ + 1]
    /\ TrackerUnchanged

\* self.a.lock().await of a spawned call
Lock(c) ==
    /\ tr.pending[c] > 0
    /\ tr.holder = None
    /\ tr' = [tr EXCEPT !.pending[c] = @ - 1, !.holder = Some(c)]
    /\ TrackerUnchanged

\* the rest of rw_on_client_o_balance and of the call: lookup, closure,
\* release of the store, result
Apply ==
    /\ tr.holder # None
    /\ LET c == tr.holder[1]
           out == rw_on_client_o_balance(tr.records, c)
       IN  tr' = [tr EXCEPT !.records = out.m, !.holder = None,
                            !.done[c] = @ + 1,
                            !.last = [call |-> Some(c), res |-> out.res,
                                      before |-> tr.records]]
    /\ TrackerUnchanged

NextTracker ==
    \/ \E c \in TrackerCalls : Spawn(c)
    \/ \E c \in TrackerCalls : Lock(c)
    \/ Apply

InitTracker ==
    /\ vt = EmptyVt
    /\ ob = [outstanding |-> 0, lock_value |-> 0]
    /\ cfg \in {c \in Configs : c.expand_risk = DEFAULT_VENDOR_CLIENT_EXPAND_RISK}
    /\ proc = [p \in Procs |-> IdleProc]
    /\ realized = 0
    /\ batch = NoBatch
    /\ sv = EmptySv
    /\ cron = IdleCron
    /\ calc = NoCalc
    /\ \E m \in StartRecords :
           tr = [records |-> m, start |-> m, spawned |-> 0,
                 pending |-> NoCalls, done |-> NoCalls,
                 holder |-> None,
                 last |-> [call |-> None, res |-> "none", before |-> m]]

SpecTracker == InitTracker /\ [][NextTracker]_vars

-----------------------------------------------------------------------------
(* ClientRiskConfig::get_client_risk_adj_collateral called on its own, on   *)
(* every collateral and subscription count up to a bound, under every       *)
(* expand_risk up to a bound.  The values stay far below 2^64.              *)

MaxRiskCollateral == 7
MaxRiskSubs == 3
MaxExpandRisk == 3

RiskCall(ci_collateral, ci_subscriptions) ==
    /\ calc' = [fn |-> "get_client_risk_adj_collateral",
                ci_collateral |-> ci_collateral,
                ci_subscriptions |-> ci_subscriptions,
                out |-> get_client_risk_adj_collateral(
                            cfg.expand_risk, ci_collateral, ci_subscriptions)]
    /\ UNCHANGED <<vt, ob, cfg, proc, realized, batch, sv, cron, tr>>

NextRisk ==
    \E c \in 0..MaxRiskCollateral, n \in 0..MaxRiskSubs : RiskCall(c, n)

InitRisk ==
    /\ vt = EmptyVt
    /\ ob = [outstanding |-> 0, lock_value |-> 0]
    /\ cfg \in [expand_risk : 0..MaxExpandRisk]
    /\ proc = [p \in Procs |-> IdleProc]
    /\ realized = 0
    /\ batch = NoBatch
    /\ sv = EmptySv
    /\ cron = IdleCron
    /\ tr = NoTracker
    /\ calc = NoCalc

SpecRisk == InitRisk /\ [][NextRisk]_vars

-----------------------------------------------------------------------------
(* The batch state-delta engine, process_txs.  The header and the txs of   *)
(* the input are what its accessors return; the signer of a tx is the      *)
(* address recover yields for it.  An i64 is a signed integer of WordBits  *)
(* bits.  A panic ends the call with no output.  With the deltas the model *)
(* keeps, per slot, the history of the txs processed: the nonces of the    *)
(* txs sent from the slot, in batch order (sent), the addresses the slot   *)
(* was touched with as sender, receiver or fee sink (touched), whether the *)
(* value of the receiver slot grew by atoms - fee_atoms in the receiver    *)
(* delta of every tx so far (recv_exact), and whether a tx processed so    *)
(* far breached an invariant of the batch (breach).                        *)

WordBits == 4        \* width of the signed integers of the model
MaxSlots == 2        \* state_deltas of the header ranges over 0..MaxSlots
MaxTx == 2           \* total_tx of the header ranges over 0..MaxTx
MaxTxNonce == 2      \* a tx carries a nonce in 0..MaxTxNonce

I64_MAX == 2^(WordBits - 1) - 1
I64_MIN == -(2^(WordBits - 1))

Addresses == {"alice", "bob"}
FeeValues == {0, 1}
AtomValues == {-1, 0, 1, I64_MAX}

Txs ==
    [signer : Addresses, to : Addresses, atoms : AtomValues,
     nonce : 0..MaxTxNonce, from_idx : 0..MaxSlots, to_idx : 0..MaxSlots]

\* i64 addition as a build without overflow checks computes it
wrapping_add(a, b) ==
    LET sm == a + b
    IN  IF sm > I64_MAX THEN sm - 2^WordBits
        ELSE IF sm < I64_MIN THEN sm + 2^WordBits
        ELSE sm

\* the i64 addition overflows: a build with overflow checks panics
overflows(a, b) == a + b > I64_MAX \/ a + b < I64_MIN

\* StateDiff { a: None, nonces: None, v: 0 }
EmptyDiff == [a |-> None, nonces |-> None, v |-> 0]

\* the outcome of an operation on the deltas that panicked
Panicked == [ok |-> FALSE, ovf |-> FALSE, deltas |-> <<>>]

Mut_apply_delta_no_assert(prev, idx, addr, atoms_delta) ==
    IF ~prev.ok \/ idx >= Len(prev.deltas) THEN Panicked
    ELSE LET delta == prev.deltas[idx + 1]
         IN  IF delta.a = None
             THEN [prev EXCEPT !.deltas[idx + 1] =
                                   [@ EXCEPT !.a = Some(addr), !.v = atoms_delta]]
             ELSE [prev EXCEPT !.ovf = @ \/ overflows(delta.v, atoms_delta),
                               !.deltas[idx + 1].v = wrapping_add(@, atoms_delta)]

\* apply_delta(deltas, idx, addr, atoms_delta), after outcome `prev`
apply_delta(prev, idx, addr, atoms_delta) ==
    IF ~prev.ok \/ idx >= Len(prev.deltas) THEN Panicked
    ELSE LET delta == prev.deltas[idx + 1]
         IN  IF delta.a = None
             THEN [prev EXCEPT !.deltas[idx + 1] =
                                   [@ EXCEPT !.a = Some(addr), !.v = atoms_delta]]
             ELSE IF delta.a[1] # addr THEN Panicked
             ELSE [prev EXCEPT !.ovf = @ \/ overflows(delta.v, atoms_delta),
                               !.deltas[idx + 1].v = wrapping_add(@, atoms_delta)]

Mut_apply_sender_delta_no_chain(prev, idx, addr, nonce, atoms_delta) ==
    IF ~prev.ok \/ idx >= Len(prev.deltas) THEN Panicked
    ELSE LET delta == prev.deltas[idx + 1]
         IN  IF delta.a = None
             THEN [prev EXCEPT !.deltas[idx + 1] =
                                   [a |-> Some(addr),
                                    nonces |-> Some(<<nonce, nonce>>),
                                    v |-> atoms_delta]]
             ELSE IF delta.a[1] # addr THEN Panicked
             ELSE [prev EXCEPT
                     !.ovf = @ \/ overflows(delta.v, atoms_delta),
                     !.deltas[idx + 1] =
                         [@ EXCEPT
                            !.nonces = IF delta.nonces # None
                                       THEN Some(<<delta.nonces[1][1], nonce>>)
                                       ELSE Some(<<nonce, nonce>>),
                            !.v = wrapping_add(@, atoms_delta)]]

\* apply_sender_delta(deltas, idx, addr, nonce, atoms_delta), after `prev`
apply_sender_delta(prev, idx, addr, nonce, atoms_delta) ==
    IF ~prev.ok \/ idx >= Len(prev.deltas) THEN Panicked
    ELSE LET delta == prev.deltas[idx + 1]
         IN  IF delta.a = None
             THEN [prev EXCEPT !.deltas[idx + 1] =
                                   [a |-> Some(addr),
                                    nonces |-> Some(<<nonce, nonce>>),
                                    v |-> atoms_delta]]
             ELSE IF delta.a[1] # addr THEN Panicked
             ELSE IF delta.nonces # None /\ delta.nonces[1][2] + 1 # nonce
             THEN Panicked
             ELSE [prev EXCEPT
                     !.ovf = @ \/ overflows(delta.v, atoms_delta),
                     !.deltas[idx + 1] =
                         [@ EXCEPT
                            !.nonces = IF delta.nonces # None
                                       THEN Some(<<delta.nonces[1][1], nonce>>)
                                       ELSE Some(<<nonce, nonce>>),
                            !.v = wrapping_add(@, atoms_delta)]]

\* the body of the loop of process_txs for one tx
process_tx(deltas, fee_recipient, fee_atoms, tx) ==
    IF ~(tx.atoms > fee_atoms) THEN Panicked
    ELSE LET start == [ok |-> TRUE, ovf |-> FALSE, deltas |-> deltas]
             d1 == apply_sender_delta(start, tx.from_idx, tx.signer, tx.nonce,
                                      -tx.atoms)
             d2 == apply_delta(d1, tx.to_idx, tx.to, tx.atoms - fee_atoms)
         IN  apply_delta(d2, 0, fee_recipient, fee_atoms)

\* by how much apply_delta(deltas, tx.to_idx(), to, to_recipient) changes the
\* value of the receiver slot of tx
receiver_gain(deltas, fee_atoms, tx) ==
    LET start == [ok |-> TRUE, ovf |-> FALSE, deltas |-> deltas]
        d1 == apply_sender_delta(start, tx.from_idx, tx.signer, tx.nonce,
                                 -tx.atoms)
        d2 == apply_delta(d1, tx.to_idx, tx.to, tx.atoms - fee_atoms)
    IN  d2.deltas[tx.to_idx + 1].v - d1.deltas[tx.to_idx + 1].v

\* the StateDelta process_txs returns for a slot
to_state_delta(x) ==
    IF x.nonces # None
    THEN [v |-> x.a[1], is_sender |-> TRUE, start_nonce |-> x.nonces[1][1],
          end_nonce |-> x.nonces[1][2], delta |-> x.v]
    ELSE [v |-> x.a[1], is_sender |-> FALSE, start_nonce |-> 0,
          end_nonce |-> 0, delta |-> x.v]

RECURSIVE SumDelta(_)
SumDelta(out) == IF out = <<>> THEN 0 ELSE out[1].delta + SumDelta(Tail(out))

Aborted == [pc |-> "abort"]

BatchUnchanged == UNCHANGED <<vt, ob, cfg, proc, realized, sv, cron, tr, calc>>

\* slot idx of the history t was touched with addr
AddTouch(t, idx, addr) == [t EXCEPT ![idx + 1] = @ \cup {addr}]

\* tx, met in state b of the loop, breaches an invariant of the batch: fee
\* exceeds atoms, slot index out of range, address mismatch, nonce gap
tx_breach(b, tx) ==
    \/ tx.atoms <= b.fee_atoms
    \/ tx.from_idx >= b.state_deltas
    \/ tx.to_idx >= b.state_deltas
    \/ LET from == b.deltas[tx.from_idx + 1]
           to == b.deltas[tx.to_idx + 1]
           sn == b.sent[tx.from_idx + 1]
       IN  \/ from.a # None /\ from.a[1] # tx.signer
           \/ sn # <<>> /\ sn[Len(sn)] + 1 # tx.nonce
           \/ IF tx.to_idx = tx.from_idx
              THEN tx.to # tx.signer
              ELSE to.a # None /\ to.a[1] # tx.to

\* process_txs(v): the header is read and the slots are set up
ProcessTxsBegin(state_deltas, fee_atoms, fee_recipient, total_tx) ==
    /\ batch.pc = "idle"
    /\ batch' = [pc |-> "loop",
                 state_deltas |-> state_deltas,
                 fee_atoms |-> fee_atoms,
                 fee_recipient |-> fee_recipient,
                 total_tx |-> total_tx,
                 offset |-> 0,
                 deltas |-> <<[a |-> Some(fee_recipient), nonces |-> None, v |-> 0]>>
                            \o [i \in 1..(state_deltas - 1) |-> EmptyDiff],
                 sent |-> <<<<>>>> \o [i \in 1..(state_deltas - 1) |-> <<>>],
                 touched |-> <<{}>> \o [i \in 1..(state_deltas - 1) |-> {}],
                 recv_exact |-> TRUE,
                 breach |-> FALSE]
    /\ BatchUnchanged

\* one pass of the loop, on the tx the input holds at `offset`
ProcessTx(tx) ==
    /\ batch.pc = "loop"
    /\ batch.offset < batch.total_tx
    /\ LET out == process_tx(batch.deltas, batch.fee_recipient, batch.fee_atoms, tx)
       IN  /\ out.ok
           /\ batch' = [batch EXCEPT
                          !.deltas = out.deltas,
                          !.offset = @ + 1,
                          !.sent[tx.from_idx + 1] = Append(@, tx.nonce),
                          !.touched =
                              AddTouch(AddTouch(AddTouch(@, tx.from_idx, tx.signer),
                                                tx.to_idx, tx.to),
                                       0, batch.fee_recipient),
                          !.recv_exact =
                              @ /\ receiver_gain(batch.deltas, batch.fee_atoms, tx)
                                      = tx.atoms - batch.fee_atoms,
                          !.breach = @ \/ tx_breach(batch, tx)]
    /\ BatchUnchanged

\* one pass of the loop panics: an assert, an unwrap, an index out of range,
\* or, in a build with overflow checks, an overflowing addition
ProcessTxPanic(tx) ==
    /\ batch.pc = "loop"
    /\ batch.offset < batch.total_tx
    /\ LET out == process_tx(batch.deltas, batch.fee_recipient, batch.fee_atoms, tx)
       IN  ~out.ok \/ out.ovf
    /\ batch' = Aborted
    /\ BatchUnchanged

\* recover panics on the tx at `offset`: its signature yields no key
ProcessTxRecoverPanic ==
    /\ batch.pc = "loop"
    /\ batch.offset < batch.total_tx
    /\ batch' = Aborted
    /\ BatchUnchanged

Mut_ProcessTxsReturn_unwrap_or_default ==
    /\ batch.pc = "loop"
    /\ batch.offset = batch.total_tx
    /\ batch' = [pc |-> "done",
                 state_deltas |-> batch.state_deltas,
                 fee_atoms |-> batch.fee_atoms,
                 fee_recipient |-> batch.fee_recipient,
                 total_tx |-> batch.total_tx,
                 sent |-> batch.sent,
                 touched |-> batch.touched,
                 recv_exact |-> batch.recv_exact,
                 breach |-> batch.breach,
                 out |-> [i \in 1..Len(batch.deltas) |->
                             IF batch.deltas[i].a = None
                             THEN [v |-> "", is_sender |-> FALSE, start_nonce |-> 0,
                                   end_nonce |-> 0, delta |-> batch.deltas[i].v]
                             ELSE to_state_delta(batch.deltas[i])]]
    /\ BatchUnchanged

\* the loop is over: every slot is turned into a StateDelta
ProcessTxsReturn ==
    /\ batch.pc = "loop"
    /\ batch.offset = batch.total_tx
    /\ \A i \in 1..Len(batch.deltas) : batch.deltas[i].a # None
    /\ batch' = [pc |-> "done",
                 state_deltas |-> batch.state_deltas,
                 fee_atoms |-> batch.fee_atoms,
                 fee_recipient |-> batch.fee_recipient,
                 total_tx |-> batch.total_tx,
                 sent |-> batch.sent,
                 touched |-> batch.touched,
                 recv_exact |-> batch.recv_exact,
                 breach |-> batch.breach,
                 out |-> [i \in 1..Len(batch.deltas) |-> to_state_delta(batch.deltas[i])]]
    /\ BatchUnchanged

\* x.a.unwrap() panics on a slot no tx touched
ProcessTxsReturnPanic ==
    /\ batch.pc = "loop"
    /\ batch.offset = batch.total_tx
    /\ \E i \in 1..Len(batch.deltas) : batch.deltas[i].a = None
    /\ batch' = Aborted
    /\ BatchUnchanged

NextBatch ==
    \/ \E sd \in 0..MaxSlots, f \in FeeValues, fr \in Addresses, n \in 0..MaxTx :
           ProcessTxsBegin(sd, f, fr, n)
    \/ \E tx \in Txs : ProcessTx(tx)
    \/ \E tx \in Txs : ProcessTxPanic(tx)
    \/ ProcessTxRecoverPanic
    \/ ProcessTxsReturn
    \/ ProcessTxsReturnPanic

\* process_txs runs on its own: the gateway is idle and configured by default
InitBatch == Init /\ cfg.expand_risk = DEFAULT_VENDOR_CLIENT_EXPAND_RISK

SpecBatch == InitBatch /\ [][NextBatch]_vars

-----------------------------------------------------------------------------
(* InputToSer::ser and the accessors of Input and Tx over its bytes.  A u8  *)
(* is a digit of ByteBits bits; the fields keep their number of bytes, so   *)
(* the offsets are those of the source.                                     *)

ByteBits == 2
MaxSerTx == 2

ByteBase == 2 ^ ByteBits

\* Input::HEADER_SIZE and TxToSer::SIZE
HEADER_SIZE == 4 + 2 + 20 + 4
TX_SIZE == 20 + 8 + 8 + 32 + 32 + 1 + 4 + 4

\* uN::to_be_bytes: the n bytes of x, most significant first
RECURSIVE to_be_bytes(_, _)
to_be_bytes(n, x) ==
    IF n = 0 THEN <<>>
    ELSE Append(to_be_bytes(n - 1, x \div ByteBase), x % ByteBase)

\* uN::from_be_bytes
RECURSIVE from_be_bytes(_)
from_be_bytes(s) ==
    IF s = <<>> THEN 0
    ELSE from_be_bytes(SubSeq(s, 1, Len(s) - 1)) * ByteBase + s[Len(s)]

\* the largest value of n bytes
MaxOf(n) == ByteBase ^ n - 1

\* i64::to_be_bytes: two's complement on 8 bytes
i64_to_be_bytes(x) == to_be_bytes(8, IF x < 0 THEN x + MaxOf(8) + 1 ELSE x)

\* i64::from_be_bytes
i64_from_be_bytes(s) ==
    LET u == from_be_bytes(s)
    IN  IF u > MaxOf(8) \div 2 THEN u - MaxOf(8) - 1 ELSE u

\* TxToSer::ser
TxToSer_ser(tx) ==
    tx.to \o i64_to_be_bytes(tx.atoms) \o to_be_bytes(8, tx.nonce)
          \o tx.sig_r \o tx.sig_s \o <<tx.v>>
          \o to_be_bytes(4, tx.from_idx) \o to_be_bytes(4, tx.to_idx)

RECURSIVE SerAll(_)
SerAll(txs) ==
    IF txs = <<>> THEN <<>> ELSE TxToSer_ser(txs[1]) \o SerAll(Tail(txs))

\* InputToSer::ser
InputToSer_ser(x) ==
    to_be_bytes(4, x.state_deltas) \o to_be_bytes(2, x.fee_atoms)
        \o x.fee_recipient \o to_be_bytes(4, Len(x.tx)) \o SerAll(x.tx)

\* the accessors of Input over the buffer v
Input_state_deltas(v) == from_be_bytes(SubSeq(v, 1, 4))
Input_fee_atoms(v) == from_be_bytes(SubSeq(v, 5, 6))
Input_fee_recipient(v) == SubSeq(v, 7, 26)
Input_total_tx(v) == from_be_bytes(SubSeq(v, 27, HEADER_SIZE))

Mut_Input_tx_at_from_start(v, idx) ==
    LET start == idx * TX_SIZE
    IN  SubSeq(v, start + 1, start + TX_SIZE)

\* Input::tx_at: the bytes of tx idx
Input_tx_at(v, idx) ==
    LET start == idx * TX_SIZE
        region == SubSeq(v, HEADER_SIZE + 1, Len(v))
    IN  SubSeq(region, start + 1, start + TX_SIZE)

\* the accessors of Tx over its bytes v
Tx_to(v) == SubSeq(v, 1, 20)
Tx_atoms(v) == i64_from_be_bytes(SubSeq(v, 21, 28))
Tx_nonce(v) == from_be_bytes(SubSeq(v, 29, 36))
Tx_sig_r(v) == SubSeq(v, 37, 68)
Tx_sig_s(v) == SubSeq(v, 69, 100)
Tx_v(v) == v[101]
Tx_from_idx(v) == from_be_bytes(SubSeq(v, 102, 105))
Tx_to_idx(v) == from_be_bytes(SubSeq(v, 106, 109))

\* byte strings of n bytes: all zero, all the largest byte, and one whose
\* bytes differ from place to place
ByteStrings(n) ==
    {[i \in 1..n |-> 0], [i \in 1..n |-> ByteBase - 1],
     [i \in 1..n |-> i % ByteBase]}

\* values of n bytes: the least, the largest, and one whose bytes are
\* 0, .., 0, 1, 2
UnsignedValues(n) == {0, MaxOf(n), ByteBase + 2}

\* the txs a batch is built from: every field at its extremes, the fields of
\* the payment and those of the signature and the slots varied in turn
SerTxs ==
    [to : ByteStrings(20), atoms : {-(MaxOf(8) \div 2) - 1, -1, 1, MaxOf(8) \div 2},
     nonce : {ByteBase + 2}, sig_r : {[i \in 1..32 |-> i % ByteBase]},
     sig_s : {[i \in 1..32 |-> 0]}, v : {1}, from_idx : {0}, to_idx : {1}]
    \cup
    [to : {[i \in 1..20 |-> i % ByteBase]}, atoms : {1},
     nonce : UnsignedValues(8), sig_r : {[i \in 1..32 |-> 0]},
     sig_s : {[i \in 1..32 |-> ByteBase - 1], [i \in 1..32 |-> i % ByteBase]},
     v : {0, ByteBase - 1},
     from_idx : {MaxOf(4)}, to_idx : {ByteBase + 2}]

SerInputs(n) ==
    [state_deltas : UnsignedValues(4), fee_atoms : {0, MaxOf(2)},
     fee_recipient : {[i \in 1..20 |-> i % ByteBase]},
     tx : [1..n -> SerTxs]]

\* ser on an input of n txs
SerCall(n) ==
    /\ calc.fn = "none"
    /\ \E x \in SerInputs(n) :
           calc' = [fn |-> "ser", x |-> x, bytes |-> InputToSer_ser(x)]
    /\ UNCHANGED <<vt, ob, cfg, proc, realized, batch, sv, cron, tr>>

NextSer == \E n \in 0..MaxSerTx : SerCall(n)

SpecSer == InitBatch /\ [][NextSer]_vars

-----------------------------------------------------------------------------
(* Properties of the gateway *)

\* C2: over any sequence of query / settle_query calls run one after another
\* from outstanding = 0, the sum of the actual_cost of the effective
\* settle_query calls equals the atoms of the vouchers moved to spent_vouchers
\* plus outstanding, whenever no settle_query is between its closures.
C2_CostConservation ==
    (\A p \in Procs : proc[p].pc \notin {"s_track", "s_bal2"})
        => realized = SumAtoms(vt.spent_vouchers) + ob.outstanding

\* a settle_query has just returned having moved a voucher and left dust
C2_Witness ==
    /\ \E p \in Procs : proc[p].pc = "ret" /\ proc[p].op = "settle"
                        /\ proc[p].popped # None
    /\ Len(vt.spent_vouchers) >= 1
    /\ ob.outstanding >= 1
    /\ realized >= 2

\* C3: when a settle_query has completed, outstanding is strictly less than
\* the atoms of the voucher that is then first in unspent_vouchers.
C3_OutstandingBelowFirstUnspent ==
    \A p \in Procs :
        (/\ proc[p].pc = "ret"
         /\ proc[p].op = "settle"
         /\ Len(vt.unspent_vouchers) > 0)
        => ob.outstanding < vt.unspent_vouchers[1].atoms

\* C4: query never returns should_continue = true when aprx_cost is greater
\* than collateral_to_be / (subscriptions_now + expand_risk) of the oracle
\* record it read.
C4_NoGrantAboveSafeCap ==
    \A p \in Procs :
        (/\ proc[p].pc = "ret"
         /\ proc[p].op = "query"
         /\ proc[p].ci_sub + cfg.expand_risk > 0
         /\ proc[p].cost > proc[p].ci_collat \div (proc[p].ci_sub + cfg.expand_risk))
        => ~proc[p].qc.should_continue

\* a query the unspent vouchers would cover is refused because of the cap
C4_Witness ==
    \E p \in Procs :
        /\ proc[p].pc = "ret"
        /\ proc[p].op = "query"
        /\ proc[p].cost > proc[p].ci_collat \div (proc[p].ci_sub + cfg.expand_risk)
        /\ proc[p].cost <= saturating_sub(saturating_sub(proc[p].unspent, ob.outstanding),
                                          ob.lock_value)
        /\ ~proc[p].qc.should_continue

\* C6: in every reachable state the unspent voucher list is strictly
\* nonce-ascending, each nonce being the previous one plus 1.
C6_UnspentAscending ==
    \A i \in 1..(Len(vt.unspent_vouchers) - 1) :
        vt.unspent_vouchers[i + 1].nonce = vt.unspent_vouchers[i].nonce + 1

\* vouchers were inserted and one was moved to spent_vouchers
C6_Witness ==
    /\ Len(vt.unspent_vouchers) >= 2
    /\ Len(vt.spent_vouchers) >= 1

C8_GapNonceRejected ==
    \A p \in Procs :
        (/\ proc[p].pc = "ret"
         /\ proc[p].op = "session"
         /\ proc[p].gated
         /\ vt.last_known_nonce # None
         /\ proc[p].v.nonce > vt.last_known_nonce[1] + 1)
        => proc[p].res # "Ok" /\ ~proc[p].inserted

\* C9: once a voucher is in spent_vouchers, every accept_session or
\* accept_query presenting its nonce fails with VoucherSpentOrNonceTooHigh.
C9_SpentNonceRejected ==
    \A p \in Procs :
        (/\ proc[p].pc = "ret"
         /\ proc[p].op \in {"session", "accept_query"}
         /\ proc[p].gated
         /\ proc[p].v.nonce \in Nonces(vt.spent_vouchers))
        => proc[p].res = "VoucherSpentOrNonceTooHigh"

\* C10: on a record whose last_known_nonce is None the closure of
\* accept_session returns Ok only for nonce 0, then stores the voucher and
\* sets last_known_nonce to Some(0); for any other nonce it returns
\* FirstVoucherNonceInvalid and leaves the record unchanged.
C10_FirstVoucher ==
    [][\A p \in Procs :
         (/\ proc[p].pc = "sess_track"
          /\ proc'[p].pc = "ret"
          /\ vt.last_known_nonce = None)
         => IF proc[p].v.nonce = 0
            THEN /\ proc'[p].res = "Ok"
                 /\ vt' = [vt EXCEPT !.unspent_vouchers = Append(@, proc[p].v),
                                     !.last_known_nonce = Some(0)]
            ELSE /\ proc'[p].res = "FirstVoucherNonceInvalid"
                 /\ vt' = vt]_vars

\* the first voucher of a client has just been stored
C10_Witness ==
    \E p \in Procs :
        /\ proc[p].pc = "ret"
        /\ proc[p].op = "session"
        /\ proc[p].inserted
        /\ proc[p].v.nonce = 0
        /\ vt.last_known_nonce = Some(0)
        /\ vt.unspent_vouchers = <<proc[p].v>>

\* C11: last_known_nonce never decreases (once Some it stays Some), a step
\* that stores a voucher sets it to that voucher's nonce, and no other step
\* changes it: it is the nonce of the most recently inserted voucher.
C11_LastKnownNonce ==
    [][LET stored == vt.spent_vouchers \o vt.unspent_vouchers
           stored2 == vt'.spent_vouchers \o vt'.unspent_vouchers
       IN  /\ vt.last_known_nonce # None
                  => /\ vt'.last_known_nonce # None
                     /\ vt'.last_known_nonce[1] >= vt.last_known_nonce[1]
           /\ IF Len(stored2) > Len(stored)
              THEN vt'.last_known_nonce =
                       Some(vt'.unspent_vouchers[Len(vt'.unspent_vouchers)].nonce)
              ELSE vt'.last_known_nonce = vt.last_known_nonce]_vars

\* last_known_nonce has grown past 0 and a voucher has been spent since
C11_Witness ==
    /\ vt.last_known_nonce # None
    /\ vt.last_known_nonce[1] >= 1
    /\ Len(vt.spent_vouchers) >= 1
    /\ Len(vt.unspent_vouchers) >= 1

StaticErrors == {"InvalidSig", "VoucherHasZeroAtoms", "InvalidVendor"}
VolatileErrors == {"ClientIsNotSubscribed", "ClientHasInsufficientBalance"}

\* C12: an admission call (accept_session, accept_query) whose voucher fails
\* the static gate returns a Static error; one whose voucher passes it and
\* fails the oracle checks returns a Volatile error, whatever its nonce; in
\* both cases the call ends there, the tracker record unchanged; only a
\* voucher passing both gates reaches the closure on the tracker record.
C12_GateOrder ==
    [][\A p \in Procs :
         (/\ proc[p].pc = "idle"
          /\ proc'[p].op \in {"session", "accept_query"})
         => LET v == proc'[p].v
                static_fails == ~v.sig \/ v.atoms = 0 \/ v.vi # "vendor"
                oracle_fails == \/ ~proc'[p].ci_subscribed
                                \/ proc'[p].ci_collat < v.atoms
            IN  IF static_fails
                THEN /\ proc'[p].pc = "ret"
                     /\ proc'[p].res \in StaticErrors
                     /\ vt' = vt
                ELSE IF oracle_fails
                THEN /\ proc'[p].pc = "ret"
                     /\ proc'[p].res \in VolatileErrors
                     /\ vt' = vt
                ELSE proc'[p].pc \in {"sess_track", "aq_track"}]_vars

\* accept_session has returned a Volatile error for a voucher whose nonce the
\* empty tracker record would have refused as well
C12_Witness ==
    \E p \in Procs :
        /\ proc[p].pc = "ret"
        /\ proc[p].op = "session"
        /\ proc[p].res \in VolatileErrors
        /\ proc[p].v.nonce # 0
        /\ vt.last_known_nonce = None

\* C13: no step of an accept_query call changes the tracker record
\* (spent_vouchers, unspent_vouchers, last_known_nonce) or the balance
\* record, whatever the call returns.
C13_AcceptQueryFrame ==
    [][\A p \in Procs :
         (proc'[p] # proc[p] /\ proc'[p].op = "accept_query")
         => vt' = vt /\ ob' = ob]_vars

\* an accept_query presenting the nonce the record would store next has
\* returned Ok while vouchers are stored and a query holds a lock
C13_Witness ==
    \E p \in Procs :
        /\ proc[p].pc = "ret"
        /\ proc[p].op = "accept_query"
        /\ proc[p].gated
        /\ proc[p].res = "Ok"
        /\ proc[p].v.nonce = NextNonce(vt)
        /\ Len(vt.unspent_vouchers) >= 1
        /\ ob.lock_value >= 1

\* C14: the closure of query on the balance record grants (should_continue,
\* locked_cost = aprx_cost, lock_value increased by aprx_cost, outstanding
\* unchanged) exactly when aprx_cost <= min(safe_cap, unspent saturating-minus
\* outstanding saturating-minus lock_value); otherwise it returns locked_cost
\* = 0, should_continue = false and leaves the balance record unchanged.
C14_QueryGrantRule ==
    [][\A p \in Procs :
         (proc[p].pc = "q_bal" /\ proc'[p].pc = "ret")
         => LET cost == proc[p].cost
                from_vouchers == IF proc[p].unspent > ob.outstanding + ob.lock_value
                                 THEN proc[p].unspent - ob.outstanding - ob.lock_value
                                 ELSE 0
            IN  IF cost <= from_vouchers /\ cost <= proc[p].safe_cap
                THEN /\ proc'[p].qc = [locked_cost |-> cost, should_continue |-> TRUE]
                     /\ ob'.lock_value = ob.lock_value + cost
                     /\ ob'.outstanding = ob.outstanding
                ELSE /\ proc'[p].qc = [locked_cost |-> 0, should_continue |-> FALSE]
                     /\ ob' = ob]_vars

\* a query is denied only because of what is outstanding and locked together:
\* the cap covers its cost, and so do the unspent atoms less either one alone
C14_Witness ==
    \E p \in Procs :
        /\ proc[p].pc = "ret"
        /\ proc[p].op = "query"
        /\ ~proc[p].qc.should_continue
        /\ ob.outstanding >= 1
        /\ ob.lock_value >= 1
        /\ proc[p].cost <= proc[p].safe_cap
        /\ proc[p].cost + ob.outstanding <= proc[p].unspent
        /\ proc[p].cost + ob.lock_value <= proc[p].unspent
        /\ proc[p].cost + ob.outstanding + ob.lock_value > proc[p].unspent

\* the queries granted with no closure of a settle_query since their call
CleanGrants ==
    {q \in Procs : /\ proc[q].pc \in {"ret", "q_held"}
                   /\ proc[q].clean
                   /\ proc[q].qc.should_continue}

RECURSIVE SumLocked(_)
SumLocked(S) ==
    IF S = {} THEN 0
    ELSE LET q == CHOOSE x \in S : TRUE
         IN  proc[q].qc.locked_cost + SumLocked(S \ {q})

\* C15: under every interleaving of the calls of a client, the locked_cost
\* of the queries granted with no settle_query step since they were called
\* sums to at most the unspent atoms (saturating-)minus outstanding.
C15_ConcurrentGrants ==
    SumLocked(CleanGrants)
        <= saturating_sub(SumAtoms(vt.unspent_vouchers), ob.outstanding)

\* of two queries in flight together one was granted and the other, which
\* the unspent atoms would have covered alone, was denied
C15_Witness ==
    \E p \in Procs, q \in Procs :
        /\ p # q
        /\ q \in CleanGrants
        /\ proc[q].qc.locked_cost >= 1
        /\ proc[p].pc = "ret"
        /\ proc[p].op = "query"
        /\ proc[p].clean
        /\ ~proc[p].qc.should_continue
        /\ proc[p].cost >= 1
        /\ proc[p].cost <= proc[p].safe_cap
        /\ proc[p].cost + ob.outstanding <= proc[p].unspent
        /\ ob.lock_value = proc[q].qc.locked_cost
        /\ proc[p].cost + ob.outstanding + ob.lock_value > proc[p].unspent

\* C16: when a settle_query was interrupted between its closures, a later
\* settle_query that succeeds and retires a voucher, leaving no further
\* voucher to retire, leaves the realized cost equal to the atoms of the
\* retired vouchers plus outstanding.
C16_ReconciledAfterInterruption ==
    \A p \in Procs :
        (/\ proc[p].pc = "ret"
         /\ proc[p].op = "settle"
         /\ proc[p].res = "Ok"
         /\ proc[p].popped # None
         /\ Len(vt.unspent_vouchers) > 0
                => ob.outstanding < vt.unspent_vouchers[1].atoms)
        => realized = SumAtoms(vt.spent_vouchers) + ob.outstanding

\* C17: an effective settle_query (calls run one after another) moves the
\* first unspent voucher to the end of spent_vouchers if and only if there is
\* one and outstanding, actual_cost added, is >= its atoms; it then reduces
\* outstanding by exactly that voucher's atoms and returns: it pops at most
\* one voucher.
C17_SettlePopRule ==
    [][\A p \in Procs :
         /\ (proc[p].pc = "s_track" /\ proc'[p] # proc[p])
            => IF /\ Len(vt.unspent_vouchers) > 0
                  /\ ob.outstanding >= vt.unspent_vouchers[1].atoms
               THEN /\ vt'.unspent_vouchers = Tail(vt.unspent_vouchers)
                    /\ vt'.spent_vouchers =
                           Append(vt.spent_vouchers, vt.unspent_vouchers[1])
                    /\ proc'[p].pc = "s_bal2"
                    /\ proc'[p].popped = Some(vt.unspent_vouchers[1])
                    /\ ob' = ob
               ELSE /\ vt' = vt
                    /\ ob' = ob
                    /\ proc'[p].pc = "ret"
                    /\ proc'[p].res = "Ok"
         /\ (proc[p].pc = "s_bal2" /\ proc'[p] # proc[p])
            => /\ ob'.outstanding = ob.outstanding - proc[p].popped[1].atoms
               /\ ob'.lock_value = ob.lock_value
               /\ vt' = vt
               /\ proc'[p].pc = "ret"
               /\ proc'[p].res = "Ok"]_vars

\* a settle_query has retired the only unspent voucher, of 2 atoms, and left
\* the rest of outstanding
C17_Witness ==
    \E p \in Procs :
        /\ proc[p].pc = "ret"
        /\ proc[p].op = "settle"
        /\ proc[p].popped # None
        /\ proc[p].popped[1].atoms = 2
        /\ vt.unspent_vouchers = <<>>
        /\ vt.spent_vouchers # <<>>
        /\ vt.spent_vouchers[Len(vt.spent_vouchers)] = proc[p].popped[1]
        /\ ob.outstanding >= 1
        /\ ob.outstanding = proc[p].bal - 2

\* C32: when the read of the oracle fails, accept_session, accept_query and
\* query return an error: the call ends there, no voucher is inserted, no
\* cost is locked and no QueryCont lets the query continue.
C32_OracleFailureClosed ==
    [][\A p \in Procs :
          proc'[p].oracle_failed =>
              /\ proc'[p].pc = "ret"
              /\ proc'[p].res = "IO"
              /\ ~proc'[p].inserted
              /\ ~proc'[p].qc.should_continue
              /\ ~proc[p].oracle_failed => vt' = vt /\ ob' = ob]_vars

\* an accept_session of the next voucher of the chain has met a failed read
C32_Witness ==
    \E p \in Procs :
        /\ proc[p].oracle_failed
        /\ proc[p].op = "session"
        /\ proc[p].v.nonce = NextNonce(vt)
        /\ vt.unspent_vouchers # <<>>

\* C36: under every interleaving of settle_query calls, the reduction of
\* outstanding by a popped voucher's atoms never clips at zero: outstanding
\* is at least the popped voucher's atoms when the third closure runs.
C36_ReductionCovered ==
    [][\A p \in Procs :
          proc[p].pc = "s_bal2" /\ proc'[p].pc = "ret" /\ proc'[p].res = "Ok"
              => ob.outstanding >= proc[p].popped[1].atoms]_vars

\* the queries granted whose QueryCont no settle_query has taken yet
GrantsHeld ==
    {q \in Procs : /\ proc[q].pc \in {"ret", "q_held"}
                   /\ proc[q].qc.should_continue}

\* C37: a QueryCont being settled at most once, the locked value is the sum
\* of locked_cost over the queries granted and not yet settled, hence 0
\* when every granted query has been settled.
C37_LockedIsHeldSum ==
    /\ ob.lock_value = SumLocked(GrantsHeld)
    /\ GrantsHeld = {} => ob.lock_value = 0

\* two granted queries are held, each with a cost locked, after an earlier
\* query was settled with a cost
C37_Witness ==
    /\ GrantsHeld = Procs
    /\ \A q \in Procs : proc[q].pc = "q_held" /\ proc[q].qc.locked_cost >= 1
    /\ realized >= 1
    /\ ob.lock_value = 2

\* C38: spent_vouchers never being flushed, spent_vouchers followed by
\* unspent_vouchers is the chain of nonces 0, 1, ..., last_known_nonce:
\* every voucher stored is in exactly one of the lists and the vouchers are
\* spent in nonce order.
C38_NonceChain ==
    LET chain == vt.spent_vouchers \o vt.unspent_vouchers
    IN  /\ Len(chain) = NextNonce(vt)
        /\ \A i \in 1..Len(chain) : chain[i].nonce = i - 1

\* two vouchers were spent and a third one is unspent
C38_Witness ==
    /\ Len(vt.spent_vouchers) = 2
    /\ Len(vt.unspent_vouchers) = 1
    /\ vt.last_known_nonce = Some(2)

\* C35: under every interleaving of query and settle_query, when query
\* grants, locked (with the grant) plus outstanding is at most the atoms of
\* the vouchers then in the unspent list.
C35_GrantWithinUnspent ==
    \A p \in Procs :
        proc[p].pc = "ret" /\ proc[p].op = "query" /\ proc[p].qc.should_continue
            => ob.lock_value + ob.outstanding <= SumAtoms(vt.unspent_vouchers)

-----------------------------------------------------------------------------
(* Properties of the cron engine *)

\* the conditions of a launch, on the locals the call holds: no job in
\* flight, the sum and the collateral at least min_settle_size, and one of
\* the three triggers
LaunchConditions(c) ==
    /\ ~c.job_running
    /\ c.unsettled >= cfg.min_settle_size
    /\ c.r.collateral_now >= cfg.min_settle_size
    /\ \/ c.unsettled >=
              get_client_risk_adj_collateral(
                  cfg.expand_risk,
                  IF c.r.is_subscribed_to_be THEN c.r.collateral_to_be ELSE 0,
                  c.r.subscriptions_now)
       \/ c.count >= cfg.max_settle_count
       \/ c.unsettled >= cfg.do_settle_size

\* C24: mby_start_settle_job goes on to select the vouchers of a settlement
\* only if no job is in flight, the sum of the unsettled vouchers and
\* collateral_now are both at least min_settle_size and one of the triggers
\* holds (sum >= safe_cap_to_be, count >= max_settle_count, sum >=
\* do_settle_size), and it returns without selecting only if one of these
\* fails; job, sum and count are those of the record after try_cleanup_job.
C24_LaunchRule ==
    [][/\ cron.pc = "idle" /\ cron'.pc # "idle" =>
            /\ cron'.job_running = (sv'.job # None)
            /\ ~cron'.job_running =>
                   /\ cron'.unsettled = SumAtoms(sv'.unsettled_vouchers)
                   /\ cron'.count = Len(sv'.unsettled_vouchers)
       /\ cron'.pc = "select" => LaunchConditions(cron')
       /\ cron'.pc = "ret" => ~LaunchConditions(cron')]_vars

\* a call goes on to the selection on the count trigger alone
C24_Witness ==
    /\ cron.pc = "select"
    /\ cron.count >= cfg.max_settle_count
    /\ cron.unsettled < cfg.do_settle_size
    /\ cron.unsettled < safe_cap_to_be(cfg, cron.r)

\* C25: the vouchers the second closure selects are a prefix of the unsettled
\* list of the record, their atoms sum to at most min(collateral_now,
\* unsettled sum of the first closure), and the prefix is the longest such:
\* it is the whole list or the next voucher would exceed that bound.
C25_LongestPrefix ==
    [][cron.pc = "select" /\ cron'.pc = "selected" =>
          LET t == cron'.to_settle
              l == sv.unsettled_vouchers
              bound == Min(cron.r.collateral_now, cron.unsettled)
          IN  /\ Len(t) <= Len(l)
              /\ t = SubSeq(l, 1, Len(t))
              /\ SumAtoms(t) <= bound
              /\ Len(t) < Len(l) => SumAtoms(t) + l[Len(t) + 1].atoms > bound]_vars

\* a selection that stops before the end of the list with room left under
\* the bound
C25_Witness ==
    /\ cron.pc = "selected"
    /\ cron.to_settle # <<>>
    /\ Len(cron.to_settle) < cron.count
    /\ SumAtoms(cron.to_settle) < cron.max_settle

\* the unsettled vouchers of x at or below / above nonce up_to, in order
AtOrBelow(x, up_to) == SelectSeq(x.unsettled_vouchers, LAMBDA u : u.nonce <= up_to)
Above(x, up_to) == SelectSeq(x.unsettled_vouchers, LAMBDA u : u.nonce > up_to)

\* C26: when try_cleanup_job meets a finished and successful job, the vouchers
\* with nonce <= up_to_incl_nonce, and only these, go to the end of the
\* settled bucket in their order, each with the reference of the job; the
\* others stay unsettled in their order; the job is cleared; the number of
\* vouchers in the two buckets is unchanged.
C26_CleanupMoves ==
    [][/\ cron.pc = "idle" /\ cron'.pc # "idle"
       /\ sv.job # None /\ sv.job[1].is_finished /\ sv.job[1].is_successful
       => LET up_to == sv.job[1].up_to_incl_nonce
              moved == AtOrBelow(sv, up_to)
          IN  /\ sv'.settled_vouchers =
                     sv.settled_vouchers \o
                     [i \in 1..Len(moved) |->
                         [v |-> moved[i], reference |-> sv.job[1].reference]]
              /\ sv'.unsettled_vouchers = Above(sv, up_to)
              /\ sv'.job = None
              /\ Len(sv'.unsettled_vouchers) + Len(sv'.settled_vouchers)
                     = Len(sv.unsettled_vouchers) + Len(sv.settled_vouchers)]_vars

\* a cleanup has moved a voucher and kept the one after it
C26_Witness ==
    /\ cron.pc # "idle"
    /\ sv.job = None
    /\ sv.settled_vouchers # <<>>
    /\ sv.unsettled_vouchers # <<>>
    /\ sv.unsettled_vouchers[1].nonce
           = sv.settled_vouchers[Len(sv.settled_vouchers)].v.nonce + 1

\* C34: when try_cleanup_job meets a finished job that did not succeed, the
\* job is cleared and the unsettled and the settled vouchers stay as they
\* are; when it meets a job that is not finished, the record stays as it is,
\* job included, and mby_start_settle_job returns without selecting.
C34_FailedOrRunningJob ==
    [][cron.pc = "idle" /\ cron'.pc # "idle" /\ sv.job # None =>
          /\ sv.job[1].is_finished /\ ~sv.job[1].is_successful =>
                 /\ sv'.job = None
                 /\ sv'.unsettled_vouchers = sv.unsettled_vouchers
                 /\ sv'.settled_vouchers = sv.settled_vouchers
          /\ ~sv.job[1].is_finished =>
                 /\ sv' = sv
                 /\ cron'.pc = "ret"
                 /\ cron'.to_settle = <<>>]_vars

\* a call has cleared a failed job whose range covered a voucher, and goes on
C34_Witness ==
    /\ cron.met = "failed"
    /\ cron.pc = "oracle"
    /\ sv.job = None
    /\ sv.settled_vouchers = <<>>
    /\ Len(sv.unsettled_vouchers) = 2

\* C39: whenever mby_start_settle_job reaches the selection, the prefix it
\* selects is not empty.
C39_SelectionNonEmpty ==
    cron.pc = "selected" => cron.to_settle # <<>>

-----------------------------------------------------------------------------
(* Properties of the balance tracker (v2) *)

\* the call that ended last met a record of its client
LastOnRecord == tr.last.call # None /\ tr.last.before[tr.last.call[1].ci] # None

\* C27: on a client that has a record, add_obligation(a) sets outstanding to
\* outstanding + a, unlock(a) sets locked to max(locked - a, 0),
\* reduce_obligation(a) sets outstanding to max(outstanding - a, 0); the other
\* counter is unchanged, and with a = 0 the record is unchanged.
C27_TrackerTransitions ==
    LastOnRecord =>
        LET c == tr.last.call[1]
            x == tr.last.before[c.ci][1]
            floor(n) == IF n < 0 THEN 0 ELSE n
        IN  /\ tr.records[c.ci] # None
            /\ LET y == tr.records[c.ci][1]
               IN  /\ c.op = "add_obligation" =>
                          /\ y.outstanding = x.outstanding + c.atoms
                          /\ y.lock_value = x.lock_value
                   /\ c.op = "unlock" =>
                          /\ y.lock_value = floor(x.lock_value - c.atoms)
                          /\ y.outstanding = x.outstanding
                   /\ c.op = "reduce_obligation" =>
                          /\ y.outstanding = floor(x.outstanding - c.atoms)
                          /\ y.lock_value = x.lock_value
                   /\ c.atoms = 0 => y = x

\* an unlock of more than is locked has ended
C27_Witness ==
    /\ LastOnRecord
    /\ tr.last.call[1].op = "unlock"
    /\ tr.last.call[1].atoms > tr.last.before[tr.last.call[1].ci][1].lock_value
    /\ tr.records[tr.last.call[1].ci][1].lock_value = 0

\* call c applied to the store m as the three transitions are stated: a
\* client with no record is left without one
OneCall(m, c) ==
    IF m[c.ci] = None THEN m
    ELSE LET x == m[c.ci][1]
             floor(n) == IF n < 0 THEN 0 ELSE n
         IN  [m EXCEPT ![c.ci] = Some(
                 CASE c.op = "add_obligation" ->
                          [x EXCEPT !.outstanding = @ + c.atoms]
                   [] c.op = "unlock" ->
                          [x EXCEPT !.lock_value = floor(@ - c.atoms)]
                   [] OTHER ->
                          [x EXCEPT !.outstanding = floor(@ - c.atoms)])]

\* the stores reached from m by the calls of the multiset b applied one at a
\* time, in every order
RECURSIVE OneAtATime(_, _)
OneAtATime(m, b) ==
    IF b = NoCalls THEN {m}
    ELSE UNION {OneAtATime(OneCall(m, c), [b EXCEPT ![c] = @ - 1]) :
                   c \in {d \in TrackerCalls : b[d] > 0}}

\* every spawned call has ended
AllJoined == tr.pending = NoCalls /\ tr.holder = None

\* C28: when the concurrent calls have all ended, the records are those
\* reached by applying the same calls one at a time in some order: no update
\* is lost.
C28_NoLostUpdate ==
    AllJoined => tr.records \in OneAtATime(tr.start, tr.done)

\* three calls on one client have ended, an add_obligation after a
\* reduce_obligation that was cut off at zero
C28_Witness ==
    /\ AllJoined
    /\ tr.spawned = 3
    /\ tr.start["c1"][1].outstanding = 1
    /\ tr.done[[op |-> "add_obligation", ci |-> "c1", atoms |-> 2]] = 2
    /\ tr.done[[op |-> "reduce_obligation", ci |-> "c1", atoms |-> 2]] = 1
    /\ tr.records["c1"][1].outstanding = 4

\* C29: a call on one client leaves the record of every other client as it
\* was.
C29_OtherClientsUnchanged ==
    tr.last.call # None =>
        \A d \in Clients \ {tr.last.call[1].ci} : tr.records[d] = tr.last.before[d]

\* a call has changed the record of c1 while c2 has a record
C29_Witness ==
    /\ LastOnRecord
    /\ tr.last.call[1].ci = "c1"
    /\ tr.records["c1"] # tr.last.before["c1"]
    /\ tr.records["c2"] # None

\* C30: a call on a client that has no record returns an error, changes no
\* record and creates none.
C30_MissingClientError ==
    tr.last.call # None /\ tr.last.before[tr.last.call[1].ci] = None =>
        /\ tr.last.res = "Err"
        /\ tr.records = tr.last.before

\* an add_obligation on the client without a record has ended
C30_Witness ==
    /\ tr.last.call # None
    /\ tr.last.call[1].op = "add_obligation"
    /\ tr.last.call[1].atoms > 0
    /\ tr.last.before[tr.last.call[1].ci] = None
    /\ tr.last.res = "Err"

-----------------------------------------------------------------------------
(* Properties of the risk calculator *)

\* C31: get_client_risk_adj_collateral(collateral, subs) is the integer
\* quotient of collateral by subs + expand_risk when that sum is positive
\* (out * sum <= collateral < (out + 1) * sum), is collateral itself when the
\* sum is 0, and never exceeds collateral.
C31_RiskQuotient ==
    calc.fn = "get_client_risk_adj_collateral" =>
        LET sm == calc.ci_subscriptions + cfg.expand_risk
        IN  /\ sm > 0 => /\ calc.out * sm <= calc.ci_collateral
                         /\ calc.ci_collateral < (calc.out + 1) * sm
            /\ sm = 0 => calc.out = calc.ci_collateral
            /\ calc.out <= calc.ci_collateral

\* a call with a remainder: 7 by 1 + 2
C31_Witness ==
    /\ calc.fn = "get_client_risk_adj_collateral"
    /\ cfg.expand_risk = 2
    /\ calc.ci_subscriptions = 1
    /\ calc.ci_collateral = 7
    /\ calc.out = 2

-----------------------------------------------------------------------------
(* Properties of the batch engine *)

\* C33: read with the accessors of Input and Tx, the bytes of ser give back
\* every field of the header and every field of every tx, tx i being the
\* 109 bytes from offset 30 + i * 109, and the bytes are 30 + 109 * (number
\* of txs) long.
C33_SerRoundTrip ==
    calc.fn = "ser" =>
        LET x == calc.x
            v == calc.bytes
        IN  /\ Len(v) = 30 + 109 * Len(x.tx)
            /\ Input_state_deltas(v) = x.state_deltas
            /\ Input_fee_atoms(v) = x.fee_atoms
            /\ Input_fee_recipient(v) = x.fee_recipient
            /\ Input_total_tx(v) = Len(x.tx)
            /\ \A i \in 1..Len(x.tx) :
                   LET t == Input_tx_at(v, i - 1)
                   IN  /\ t = SubSeq(v, 30 + (i - 1) * 109 + 1, 30 + i * 109)
                       /\ Tx_to(t) = x.tx[i].to
                       /\ Tx_atoms(t) = x.tx[i].atoms
                       /\ Tx_nonce(t) = x.tx[i].nonce
                       /\ Tx_sig_r(t) = x.tx[i].sig_r
                       /\ Tx_sig_s(t) = x.tx[i].sig_s
                       /\ Tx_v(t) = x.tx[i].v
                       /\ Tx_from_idx(t) = x.tx[i].from_idx
                       /\ Tx_to_idx(t) = x.tx[i].to_idx

\* two txs have been serialized, the second with negative atoms and the
\* first with the largest nonce
C33_Witness ==
    /\ calc.fn = "ser"
    /\ Len(calc.x.tx) = 2
    /\ calc.x.tx[2].atoms < 0
    /\ calc.x.tx[1].nonce = MaxOf(8)
    /\ calc.x.state_deltas = MaxOf(4)

\* C18: when process_txs accepts a batch of total_tx txs with fee fee_atoms,
\* the delta of slot 0 is total_tx * fee_atoms, and every tx added exactly
\* atoms - fee_atoms to its receiver slot.
C18_FeeAccounting ==
    batch.pc = "done"
        => /\ batch.out[1].delta = batch.total_tx * batch.fee_atoms
           /\ batch.recv_exact

\* C19: when process_txs accepts a batch, slot 0 is bound to fee_recipient,
\* no tx was sent from it, and its output record has is_sender = false and
\* zero nonces.
C19_SlotZeroNeverSender ==
    batch.pc = "done"
        => /\ batch.out[1].v = batch.fee_recipient
           /\ batch.sent[1] = <<>>
           /\ ~batch.out[1].is_sender
           /\ batch.out[1].start_nonce = 0
           /\ batch.out[1].end_nonce = 0

\* C20: the nonces of the txs process_txs has processed from a slot, in batch
\* order, each equal the previous one plus 1 (a tx breaking the chain aborts
\* the batch), and when the batch is accepted every slot a tx was sent from
\* is output as a sender whose start_nonce is the first of these nonces and
\* whose end_nonce is the last, every other slot as a non-sender.
C20_SenderNonceChain ==
    batch.pc \in {"loop", "done"}
        => \A s \in 1..Len(batch.sent) :
              LET sn == batch.sent[s]
              IN  /\ \A i \in 1..(Len(sn) - 1) : sn[i + 1] = sn[i] + 1
                  /\ batch.pc = "done"
                         => IF sn # <<>>
                            THEN /\ batch.out[s].is_sender
                                 /\ batch.out[s].start_nonce = sn[1]
                                 /\ batch.out[s].end_nonce = sn[Len(sn)]
                            ELSE ~batch.out[s].is_sender

\* a batch with two txs sent from one slot, their nonces 1 and 2, is
\* accepted
C20_Witness ==
    /\ batch.pc = "done"
    /\ \E s \in 1..Len(batch.sent) :
           /\ batch.sent[s] = <<1, 2>>
           /\ batch.out[s].start_nonce = 1
           /\ batch.out[s].end_nonce = 2

\* C21: within one batch a slot is bound to at most one address: every touch
\* of a slot that process_txs lets pass (as sender, receiver or fee sink)
\* carries the address the slot is bound to, and the address of a bound slot
\* never changes, up to and including the output.
C21_SlotAddressBinding ==
    [][(batch.pc = "loop" /\ batch'.pc \in {"loop", "done"})
         => \A s \in 1..Len(batch.deltas) :
               LET bound == IF batch'.pc = "loop"
                            THEN batch'.deltas[s].a
                            ELSE Some(batch'.out[s].v)
               IN  /\ batch.deltas[s].a # None => bound = batch.deltas[s].a
                   /\ batch'.touched[s] # {}
                          => /\ bound # None
                             /\ batch'.touched[s] = {bound[1]}]_vars

\* a batch is accepted in which a slot other than slot 0 was touched by two
\* txs, as receiver and as sender, with one address
C21_Witness ==
    /\ batch.pc = "done"
    /\ batch.total_tx = 2
    /\ \E s \in 2..Len(batch.out) :
           /\ Len(batch.sent[s]) = 1
           /\ batch.out[s].delta > 0
           /\ batch.touched[s] = {batch.out[s].v}

\* C22: process_txs returns a delta vector, which then has a record for
\* every slot, only for a batch none of whose txs breaches an invariant
\* (address mismatch, nonce gap, atoms <= fee_atoms, slot index >=
\* state_deltas).
C22_BreachAborts ==
    batch.pc = "done"
        => /\ ~batch.breach
           /\ Len(batch.out) = Len(batch.sent)

\* C23: when process_txs accepts a batch it returns state_deltas records,
\* the record at position s being that of slot s (slot 0 the fee
\* recipient's, every other one carrying the address its slot was touched
\* with); a record has is_sender = true and the first and last nonce sent
\* from its slot exactly when a tx was sent from the slot, and is_sender =
\* false with start_nonce = end_nonce = 0 otherwise.
C23_OutputShape ==
    batch.pc = "done"
        => /\ Len(batch.out) = batch.state_deltas
           /\ batch.out[1].v = batch.fee_recipient
           /\ \A s \in 1..Len(batch.out) :
                 LET sn == batch.sent[s]
                 IN  /\ batch.touched[s] \subseteq {batch.out[s].v}
                     /\ IF sn # <<>>
                        THEN /\ batch.out[s].is_sender
                             /\ batch.out[s].start_nonce = sn[1]
                             /\ batch.out[s].end_nonce = sn[Len(sn)]
                        ELSE /\ ~batch.out[s].is_sender
                             /\ batch.out[s].start_nonce = 0
                             /\ batch.out[s].end_nonce = 0

\* the loop of process_txs is over and the slots are about to be collected
Collecting == batch.pc = "loop" /\ batch.offset = batch.total_tx

\* C40 as stated: process_txs accepts a batch only if every slot in
\* [0, state_deltas) has a bound address at the end; a batch declaring a
\* slot that no tx touches aborts, and no record carries an unbound address.
C40_EverySlotTouched ==
    [][Collecting
          => IF \E s \in 1..batch.state_deltas : batch.touched[s] = {}
             THEN batch'.pc = "abort"
             ELSE /\ batch'.pc = "done"
                  /\ \A s \in 1..Len(batch'.out) : batch'.out[s].v \in Addresses]_vars

\* C40, amended: process_txs accepts a batch only if every slot in
\* [0, state_deltas) has a bound address at the end; a batch declaring a
\* slot other than slot 0 that no tx touches aborts, and every record of an
\* accepted batch carries the address its slot is bound to.
C40_EveryOtherSlotTouched ==
    [][Collecting
          => IF \E s \in 2..batch.state_deltas : batch.touched[s] = {}
             THEN batch'.pc = "abort"
             ELSE /\ batch'.pc = "done"
                  /\ Len(batch'.out) >= batch.state_deltas
                  /\ batch'.out[1].v = batch.fee_recipient
                  /\ \A s \in 2..Len(batch'.out) :
                        batch'.out[s].v \in batch.touched[s]]_vars

\* a batch that declares two slots was accepted: its txs touch slot 1, sent
\* from and received on
C40_Witness ==
    /\ batch.pc = "done"
    /\ batch.state_deltas = 2
    /\ batch.total_tx >= 1
    /\ batch.touched[2] # {}
    /\ batch.out[2].v \in batch.touched[2]

\* C1: after process_txs accepts a batch, the delta values of all slots sum
\* to 0.
C1_DeltaSumZero ==
    batch.pc = "done" => SumDelta(batch.out) = 0

====
